---- MODULE Spec2Model ----
(***************************************************************************)
(* A model of poezio's tab list, main loop and timed events                *)
(* (src/src/core/core.py), of its message buffer (src/src/text_buffer.py)  *)
(* and of the room list of its legacy Gui (src/src/gui.py).                *)
(*                                                                         *)
(* Python lists are modelled as TLA+ sequences; a Python index i is the    *)
(* sequence index i + 1 (see At).                                          *)
(***************************************************************************)
EXTENDS Integers, Sequences, FiniteSets, TLC

VARIABLES
    tabs,            \* Core.tabs: the list of tabs (GapTab for a gap)
    current_tab_nb,  \* Core._current_tab_nb
    create_gaps,     \* config.get('create_gaps', False)
    tabOp,           \* history: the last tab operation, its arguments (with the
                     \* tab.state of the tabs where it reads them), its result
                     \* and the hooks it invoked on tabs, in order
    rotStart,        \* history: cursor at the start of the current run of rotate_rooms_right
    rotSeq,          \* history: cursors focused by that run, in order
    messages,        \* TextBuffer.messages
    windows,         \* TextBuffer.windows
    attached,        \* history: per window, whether it was given to add_window ("yes"),
                     \* to del_window since ("removed"), or to neither ("never")
    corrections,     \* history: per slot of messages, the successful corrections made to it
    appended,        \* history: the number of add_message calls, counted up to the limit + 1
    appendedAs,      \* history: per slot of messages, the history and str_time arguments
                     \* of the add_message call that filled it
    bufOp,           \* history: the last TextBuffer operation and its outcome
    paused,          \* Core.paused
    previous_tab_nb, \* Core.previous_tab_nb
    looping,         \* whether main_loop is still in its `while self.running` loop
    loopOp,          \* history: the last batch of keys main_loop handled, the runs it
                     \* was split into and the calls made for it, in order
    char_list,       \* the argument of separate_chars_from_bindings
    res,             \* what separate_chars_from_bindings returned for it
    timed_events,    \* Core.timed_events
    timerOp,         \* history: the last operation on the timed events and, for
                     \* check_timed_events, the events it fired, in order
    deadline,        \* per timed event object: whether it was never given to
                     \* add_timed_event ("new"), or was and its deadline is still
                     \* ahead ("future") or has passed ("passed"); followed where
                     \* the passing of time matters
    rooms,           \* Gui.rooms (src/src/gui.py): the current room is rooms[0]
    guiOp            \* history: the last operation on Gui.rooms, the list before it
                     \* and the calls it made on the window and on the muc

vars == <<tabs, current_tab_nb, create_gaps, tabOp, rotStart, rotSeq,
          messages, windows, attached, corrections, appended, appendedAs, bufOp,
          paused, previous_tab_nb, looping, loopOp, char_list, res,
          timed_events, timerOp, deadline, rooms, guiOp>>

tabVars == <<tabs, current_tab_nb, create_gaps, tabOp, rotStart, rotSeq>>
bufVars == <<messages, windows, attached, corrections, appended, appendedAs, bufOp>>
keyVars == <<paused, previous_tab_nb, looping, loopOp, char_list, res>>
timerVars == <<timed_events, timerOp, deadline>>
loopVars == <<keyVars, timerVars>>
guiVars == <<rooms, guiOp>>

----------------------------------------------------------------------------
(* Bounds *)

\* number of tab objects other than the roster tab that may be opened
NTabs == 3
\* longest tab list explored (add_tab and appending moves are cut off there)
MaxLen == 4
\* TextBuffer(messages_nb_limit): the size limit of the buffer under study
messages_nb_limit == 2
\* most corrections explored for one message
MaxRevisions == 2
\* number of window objects that may be attached to the buffer
NWindows == 2
\* longest batch of keys given to separate_chars_from_bindings
MaxBatch == 5
\* longest batch of keys that read_keyboard returns to main_loop
MaxKeys == 2
\* number of timed event objects
NEvents == 3
\* longest list of rooms explored in the legacy Gui (join_room is cut off there)
MaxRooms == 3

----------------------------------------------------------------------------
(* Window objects; win.pos is 0 when the window shows its last lines *)

Windows == 1 .. NWindows

\* the timed event objects
Events == 1 .. NEvents

----------------------------------------------------------------------------
(* Tab objects.  bool(tab) is False exactly for a GapTab. *)

GapTab == 0
RosterInfoTab == 1
OtherTabs == 2 .. (NTabs + 1)

\* the default of insert_tab's new_pos
DefaultNewPos == 99999

\* the value of `None` where a tab position is expected
NoTab == -1

----------------------------------------------------------------------------
(* Python list primitives, on 0-based indices *)

At(s, i) == s[i + 1]

SetAt(s, i, x) == [s EXCEPT ![i + 1] = x]

\* list.pop(i)
Pop(s, i) == SubSeq(s, 1, i) \o SubSeq(s, i + 2, Len(s))

\* list.pop()
PopLast(s) == SubSeq(s, 1, Len(s) - 1)

\* list.insert(i, x) for i >= 0: an index past the end appends
Insert(s, i, x) ==
    IF i >= Len(s) THEN Append(s, x)
    ELSE SubSeq(s, 1, i) \o <<x>> \o SubSeq(s, i + 1, Len(s))

\* list.index(x): the first position holding x (x is in the list)
Index(s, x) == CHOOSE i \in 0 .. (Len(s) - 1) :
                  /\ At(s, i) = x
                  /\ \A j \in 0 .. (i - 1) : At(s, j) # x

\* list.remove(x): drops the first occurrence of x
Remove(s, x) == Pop(s, Index(s, x))

NumGaps(s) == Cardinality({i \in 1 .. Len(s) : s[i] = GapTab})

RealTabs(s) == {s[i] : i \in 1 .. Len(s)} \ {GapTab}

----------------------------------------------------------------------------
(* The focus cursor *)

\* Core.current_tab_nb.setter: the value the cursor takes when `value` is assigned
current_tab_nb_setter(s, value) ==
    IF value >= Len(s) THEN 0
    ELSE IF value < 0 THEN Len(s) - 1
    ELSE value

\* Core.current_tab(): re-assigns the cursor to itself (through the setter)
\* and returns the tab it then denotes; this is the cursor part
current_tab(s, cur) == current_tab_nb_setter(s, cur)

\* a slip: the cursor is not moved in the loop, which never ends once the
\* cursor is on a Gap
SkipGapsNoStep(s, cur, d, steps) ==
    IF At(s, cur) # GapTab THEN [cur |-> cur, steps |-> steps, diverged |-> FALSE]
    ELSE [cur |-> cur, steps |-> Len(s) + 1, diverged |-> TRUE]

\* the loop `while not self.tabs[self.current_tab_nb]: self.current_tab_nb += d`
\* (d = 1 or -1), every assignment going through the setter.  `steps` counts
\* the iterations; the loop is cut off (diverged) after Len(s) + 1 of them.
RECURSIVE SkipGaps(_, _, _, _)
SkipGaps(s, cur, d, steps) ==
    IF At(s, cur) # GapTab THEN [cur |-> cur, steps |-> steps, diverged |-> FALSE]
    ELSE IF steps > Len(s) THEN [cur |-> cur, steps |-> steps, diverged |-> TRUE]
    ELSE SkipGaps(s, current_tab_nb_setter(s, cur + d), d, steps + 1)

----------------------------------------------------------------------------
(* Moving a tab *)

\* a slip: the tab changes places with the one at new_pos (the last one when
\* new_pos is past the end)
insert_tab_nogaps_swap(s, old_pos, new_pos) ==
    LET to == IF new_pos >= Len(s) THEN Len(s) - 1 ELSE new_pos IN
    IF new_pos = old_pos THEN [ret |-> FALSE, tabs |-> s, trimmed |-> 0]
    ELSE [ret |-> TRUE, tabs |-> SetAt(SetAt(s, to, At(s, old_pos)), old_pos, At(s, to)),
          trimmed |-> 0]

\* Core.insert_tab_nogaps
insert_tab_nogaps(s, old_pos, new_pos) ==
    LET tab == At(s, old_pos) IN
    IF new_pos < old_pos
    THEN [ret |-> TRUE, tabs |-> Insert(Pop(s, old_pos), new_pos, tab), trimmed |-> 0]
    ELSE IF new_pos > old_pos
    THEN [ret |-> TRUE, tabs |-> Remove(Insert(s, new_pos, tab), tab), trimmed |-> 0]
    ELSE [ret |-> FALSE, tabs |-> s, trimmed |-> 0]

\* a slip: the scan for a Gap starts at the head of the list, not after i
RemoveFirstGapAnywhere(s, i) ==
    LET gaps == {j \in 0 .. (Len(s) - 1) : At(s, j) = GapTab} IN
    IF gaps = {} THEN s
    ELSE Pop(s, CHOOSE j \in gaps : \A k \in gaps : j <= k)

\* the loop of insert_tab_gaps that removes the first Gap to the right of
\* index i, if there is one
RemoveFirstGapRight(s, i) ==
    LET right == {j \in (i + 1) .. (Len(s) - 1) : At(s, j) = GapTab} IN
    IF right = {} THEN s
    ELSE Pop(s, CHOOSE j \in right : \A k \in right : j <= k)

\* the loop of insert_tab_gaps that pops the trailing Gaps
RECURSIVE TrimTrailingGaps(_)
TrimTrailingGaps(s) ==
    IF Len(s) > 0 /\ At(s, Len(s) - 1) = GapTab
    THEN TrimTrailingGaps(PopLast(s))
    ELSE s

\* a slip: the move is done as in no-gap mode, leaving no Gap behind
insert_tab_gaps_as_nogaps(s, old_pos, new_pos) == insert_tab_nogaps(s, old_pos, new_pos)

\* Core.insert_tab_gaps
insert_tab_gaps(s, old_pos, new_pos) ==
    LET tab == At(s, old_pos)
        targetIsTab == new_pos < Len(s) /\ At(s, new_pos) # GapTab
        moved ==
            IF ~targetIsTab
            THEN IF new_pos < Len(s)
                 THEN SetAt(SetAt(s, new_pos, tab), old_pos, GapTab)
                 ELSE SetAt(Append(s, tab), old_pos, GapTab)
            ELSE LET t == IF new_pos > old_pos
                          THEN SetAt(Insert(s, new_pos, tab), old_pos, GapTab)
                          ELSE Insert(SetAt(s, old_pos, GapTab), new_pos, tab)
                 IN RemoveFirstGapRight(t, Index(t, tab))
        final == TrimTrailingGaps(moved)
    IN
    IF targetIsTab /\ new_pos = old_pos
    THEN [ret |-> FALSE, tabs |-> s, trimmed |-> 0]
    ELSE [ret |-> TRUE, tabs |-> final, trimmed |-> Len(moved) - Len(final)]

\* a slip: the lower bound of old_pos is tested with < instead of <=
insert_tab_from_zero(s, gaps, old_pos, new_pos) ==
    IF old_pos < 0 \/ old_pos >= Len(s) THEN [ret |-> FALSE, tabs |-> s, trimmed |-> 0]
    ELSE IF new_pos <= 0 THEN [ret |-> FALSE, tabs |-> s, trimmed |-> 0]
    ELSE IF new_pos = old_pos THEN [ret |-> FALSE, tabs |-> s, trimmed |-> 0]
    ELSE IF At(s, old_pos) = GapTab THEN [ret |-> FALSE, tabs |-> s, trimmed |-> 0]
    ELSE IF gaps THEN insert_tab_gaps(s, old_pos, new_pos)
    ELSE insert_tab_nogaps(s, old_pos, new_pos)

\* a slip: the lower bound of new_pos is tested with < instead of <=
insert_tab_to_zero(s, gaps, old_pos, new_pos) ==
    IF old_pos <= 0 \/ old_pos >= Len(s) THEN [ret |-> FALSE, tabs |-> s, trimmed |-> 0]
    ELSE IF new_pos < 0 THEN [ret |-> FALSE, tabs |-> s, trimmed |-> 0]
    ELSE IF new_pos = old_pos THEN [ret |-> FALSE, tabs |-> s, trimmed |-> 0]
    ELSE IF At(s, old_pos) = GapTab THEN [ret |-> FALSE, tabs |-> s, trimmed |-> 0]
    ELSE IF gaps THEN insert_tab_gaps(s, old_pos, new_pos)
    ELSE insert_tab_nogaps(s, old_pos, new_pos)

\* Core.insert_tab
insert_tab(s, gaps, old_pos, new_pos) ==
    IF old_pos <= 0 \/ old_pos >= Len(s) THEN [ret |-> FALSE, tabs |-> s, trimmed |-> 0]
    ELSE IF new_pos <= 0 THEN [ret |-> FALSE, tabs |-> s, trimmed |-> 0]
    ELSE IF new_pos = old_pos THEN [ret |-> FALSE, tabs |-> s, trimmed |-> 0]
    ELSE IF At(s, old_pos) = GapTab THEN [ret |-> FALSE, tabs |-> s, trimmed |-> 0]
    ELSE IF gaps THEN insert_tab_gaps(s, old_pos, new_pos)
    ELSE insert_tab_nogaps(s, old_pos, new_pos)

----------------------------------------------------------------------------
(* Closing a tab *)

\* the loop of close_tab (gap mode) that pops the Gaps left at the end once
\* the last tab is removed: `while not self.tabs[nb]: self.tabs.pop(); nb -= 1`
RECURSIVE PopWhileGap(_, _)
PopWhileGap(s, nb) ==
    IF nb >= 0 /\ nb < Len(s) /\ At(s, nb) = GapTab
    THEN PopWhileGap(PopLast(s), nb - 1)
    ELSE s

\* a slip: the Gaps left at the end by closing the last tab are not popped
close_tab_list_no_pop(s, gaps, nb) ==
    IF gaps
    THEN IF nb >= Len(s) - 1
         THEN Pop(s, nb)
         ELSE SetAt(s, nb, GapTab)
    ELSE Pop(s, nb)

\* a slip: the tab is removed from the list whatever the mode
close_tab_list_always_remove(s, gaps, nb) == Pop(s, nb)

\* Core.close_tab, the tab list: nb is the number of the tab that is closed
close_tab_list(s, gaps, nb) ==
    IF gaps
    THEN IF nb >= Len(s) - 1
         THEN PopWhileGap(Pop(s, nb), nb - 1)
         ELSE SetAt(s, nb, GapTab)
    ELSE Pop(s, nb)

\* a slip: the cursor is brought back into the list but may rest on a Gap
close_tab_cursor_no_search(s, cur) ==
    [cur |-> IF cur >= Len(s) THEN current_tab_nb_setter(s, Len(s) - 1) ELSE cur,
     steps |-> 0, diverged |-> FALSE]

\* Core.close_tab, the cursor once the list is changed
close_tab_cursor(s, cur) ==
    LET c == IF cur >= Len(s) THEN current_tab_nb_setter(s, Len(s) - 1) ELSE cur
    IN SkipGaps(s, c, -1, 0)

----------------------------------------------------------------------------
(* Rotation and direct jumps *)

\* a slip: the loop that skips the Gaps is missing
rotate_rooms_right_no_skip(s, cur) ==
    [cur |-> current_tab_nb_setter(s, current_tab(s, cur) + 1), steps |-> 0,
     diverged |-> FALSE]

\* Core.rotate_rooms_right, the cursor
rotate_rooms_right(s, cur) ==
    SkipGaps(s, current_tab_nb_setter(s, current_tab(s, cur) + 1), 1, 0)

\* a slip: rotating to the left steps to the right
rotate_rooms_left_as_right(s, cur) == rotate_rooms_right(s, cur)

\* Core.rotate_rooms_left, the cursor
rotate_rooms_left(s, cur) ==
    SkipGaps(s, current_tab_nb_setter(s, current_tab(s, cur) - 1), -1, 0)

\* commands.command_win with a number: jump to the tab with that number, if
\* there is one and it is not the focused one
command_win(s, cur, nb) ==
    IF cur = nb THEN cur
    ELSE IF 0 <= nb /\ nb < Len(s) /\ At(s, nb) # GapTab THEN nb
    ELSE cur

----------------------------------------------------------------------------
(* The hooks of a tab that Core invokes: a call is recorded as <<hook, tab>> *)

on_close(tab) == <<"on_close", tab>>

on_lose_focus(tab) == <<"on_lose_focus", tab>>

on_gain_focus(tab) == <<"on_gain_focus", tab>>

----------------------------------------------------------------------------
(* The state after Core.start(): the roster tab alone, focused *)

NoTabOp == [name |-> "none", states |-> <<>>, a |-> NoTab, b |-> NoTab, ret |-> FALSE,
            tabs0 |-> <<RosterInfoTab>>, cur0 |-> 0, trimmed |-> 0,
            hooks |-> <<>>, steps |-> 0, diverged |-> FALSE]

NoBufOp == [name |-> "none", result |-> "none", index |-> -1, calls |-> <<>>]

NoLoopOp == [name |-> "none", keys |-> <<>>, runs |-> <<>>, calls |-> <<>>,
             handled |-> 0, raised |-> FALSE, cur0 |-> 0]

NoTimerOp == [name |-> "none", events0 |-> {}, timed_out |-> {}, falsy |-> {},
              fired |-> <<>>]

\* a Room of the legacy Gui: Room(name, nick), id telling the objects apart
Room(id, name, nick) == [id |-> id, name |-> name, nick |-> nick]

NoGuiOp == [name |-> "none", rooms0 |-> <<>>, calls |-> <<>>]

\* Gui.__init__: the room 'Info' alone
InitGuiVars ==
    /\ rooms = <<Room(0, "Info", "")>>
    /\ guiOp = NoGuiOp

\* Core.__init__: not paused, no previous tab, no timed event; main_loop
\* has read no key
InitLoopVars ==
    /\ paused = FALSE
    /\ previous_tab_nb = 0
    /\ looping = TRUE
    /\ loopOp = NoLoopOp
    /\ char_list = <<>>
    /\ res = <<>>
    /\ timed_events = {}
    /\ timerOp = NoTimerOp
    /\ deadline = [e \in Events |-> "new"]

InitTabs ==
    /\ tabs = <<RosterInfoTab>>
    /\ current_tab_nb = 0
    /\ create_gaps \in BOOLEAN
    /\ tabOp = NoTabOp
    /\ rotStart = NoTab
    /\ rotSeq = <<>>
    /\ messages = <<>>
    /\ windows = <<>>
    /\ attached = [id \in Windows |-> "never"]
    /\ corrections = <<>>
    /\ appended = 0
    /\ appendedAs = <<>>
    /\ bufOp = NoBufOp
    /\ InitLoopVars
    /\ InitGuiVars

ValidCursor(s, cur) == 0 <= cur /\ cur < Len(s) /\ At(s, cur) # GapTab

\* the run of consecutive rotate_rooms_right calls ends with any other call
EndRotation == rotStart' = NoTab /\ rotSeq' = <<>>

----------------------------------------------------------------------------
(* Actions on the tab list *)

\* Core.add_tab(new_tab, focus); add_tab itself invokes no hook
AddTab ==
    \E new_tab \in OtherTabs \ RealTabs(tabs), focus \in BOOLEAN :
        /\ Len(tabs) < MaxLen
        /\ tabs' = Append(tabs, new_tab)
        /\ current_tab_nb' = IF focus
                             THEN command_win(tabs', current_tab_nb, Len(tabs') - 1)
                             ELSE current_tab_nb
        /\ tabOp' = [name |-> "add_tab", states |-> <<>>, a |-> new_tab, b |-> IF focus THEN 1 ELSE 0,
                     ret |-> TRUE, tabs0 |-> tabs, cur0 |-> current_tab_nb,
                     trimmed |-> 0, hooks |-> <<>>, steps |-> 0, diverged |-> FALSE]
        /\ EndRotation
        /\ UNCHANGED <<create_gaps, bufVars, loopVars, guiVars>>

\* Core.insert_tab(old_pos, new_pos)
InsertTab ==
    \E old_pos \in 0 .. MaxLen, new_pos \in (0 .. MaxLen) \cup {DefaultNewPos} :
        LET r == insert_tab(tabs, create_gaps, old_pos, new_pos) IN
        /\ Len(r.tabs) <= MaxLen
        /\ tabs' = r.tabs
        /\ tabOp' = [name |-> "insert_tab", states |-> <<>>, a |-> old_pos, b |-> new_pos,
                     ret |-> r.ret, tabs0 |-> tabs, cur0 |-> current_tab_nb,
                     trimmed |-> r.trimmed, hooks |-> <<>>,
                     steps |-> 0, diverged |-> FALSE]
        /\ EndRotation
        /\ UNCHANGED <<current_tab_nb, create_gaps, bufVars, loopVars, guiVars>>

\* Core.close_tab(tab): arg is the number of the tab given, NoTab for None
CloseTab ==
    \E arg \in {NoTab} \cup {i \in 0 .. (Len(tabs) - 1) : At(tabs, i) # GapTab} :
        LET cur1 == IF arg = NoTab THEN current_tab(tabs, current_tab_nb)
                    ELSE current_tab_nb
            nb == IF arg = NoTab THEN cur1 ELSE arg
        IN
        IF At(tabs, nb) = RosterInfoTab
        THEN /\ current_tab_nb' = cur1
             /\ tabOp' = [name |-> "close_tab", states |-> <<>>, a |-> arg, b |-> NoTab,
                          ret |-> FALSE, tabs0 |-> tabs, cur0 |-> current_tab_nb,
                          trimmed |-> 0, hooks |-> <<>>, steps |-> 0, diverged |-> FALSE]
             /\ EndRotation
             /\ UNCHANGED <<tabs, create_gaps, bufVars, loopVars, guiVars>>
        ELSE /\ tabs' = close_tab_list(tabs, create_gaps, nb)
             /\ current_tab_nb' = close_tab_cursor(tabs', cur1).cur
             /\ tabOp' = [name |-> "close_tab", states |-> <<>>, a |-> arg, b |-> nb,
                          ret |-> TRUE, tabs0 |-> tabs, cur0 |-> current_tab_nb,
                          trimmed |-> 0,
                          hooks |-> <<on_close(At(tabs, nb)),
                                      on_gain_focus(At(tabs', current_tab_nb'))>>,
                          steps |-> close_tab_cursor(tabs', cur1).steps,
                          diverged |-> close_tab_cursor(tabs', cur1).diverged]
             /\ EndRotation
             /\ UNCHANGED <<create_gaps, bufVars, loopVars, guiVars>>

\* Core.rotate_rooms_right()
RotateRight ==
    LET r == rotate_rooms_right(tabs, current_tab_nb)
        fresh == rotStart = NoTab \/ Len(rotSeq) >= Cardinality(RealTabs(tabs))
    IN
    /\ current_tab_nb' = r.cur
    /\ tabOp' = [name |-> "rotate_rooms_right", states |-> <<>>, a |-> NoTab, b |-> NoTab,
                 ret |-> ~r.diverged, tabs0 |-> tabs, cur0 |-> current_tab_nb,
                 trimmed |-> r.steps,
                 hooks |-> <<on_lose_focus(At(tabs, current_tab(tabs, current_tab_nb))),
                             on_gain_focus(At(tabs, r.cur))>>,
                 steps |-> r.steps + 1, diverged |-> r.diverged]
    /\ IF fresh
       THEN IF ValidCursor(tabs, current_tab_nb)
            THEN rotStart' = current_tab_nb /\ rotSeq' = <<r.cur>>
            ELSE rotStart' = NoTab /\ rotSeq' = <<>>
       ELSE rotStart' = rotStart /\ rotSeq' = Append(rotSeq, r.cur)
    /\ UNCHANGED <<tabs, create_gaps, bufVars, loopVars, guiVars>>

\* Core.rotate_rooms_left()
RotateLeft ==
    LET r == rotate_rooms_left(tabs, current_tab_nb) IN
    /\ current_tab_nb' = r.cur
    /\ tabOp' = [name |-> "rotate_rooms_left", states |-> <<>>, a |-> NoTab, b |-> NoTab,
                 ret |-> ~r.diverged, tabs0 |-> tabs, cur0 |-> current_tab_nb,
                 trimmed |-> r.steps,
                 hooks |-> <<on_lose_focus(At(tabs, current_tab(tabs, current_tab_nb))),
                             on_gain_focus(At(tabs, r.cur))>>,
                 steps |-> r.steps + 1, diverged |-> r.diverged]
    /\ EndRotation
    /\ UNCHANGED <<tabs, create_gaps, bufVars, loopVars, guiVars>>

NextTabs == AddTab \/ InsertTab \/ CloseTab \/ RotateRight \/ RotateLeft

SpecTabs == InitTabs /\ [][NextTabs]_vars

----------------------------------------------------------------------------
(* Changing the option create_gaps *)

\* the values given to the option
GapsValues == {"true", "false", "True", "False"}

\* value.lower(), of these values
lower(value) ==
    IF value = "True" THEN "true"
    ELSE IF value = "False" THEN "false"
    ELSE value

\* a slip: the Gaps are kept
on_gaps_config_change_keeping(s, value) == s

\* Core.on_gaps_config_change, the tab list
on_gaps_config_change(s, value) ==
    IF lower(value) = "false" THEN SelectSeq(s, LAMBDA x : x # GapTab) ELSE s

\* the option create_gaps is given another value (by /set or by a reload of
\* the configuration) and Core.trigger_configuration_change calls the
\* handler of the option with it; config.get('create_gaps', False) is from
\* then on the boolean that the value stands for
OnGapsConfigChange ==
    \E value \in GapsValues :
        /\ create_gaps' = (lower(value) = "true")
        /\ tabs' = on_gaps_config_change(tabs, value)
        /\ tabOp' = [name |-> "on_gaps_config_change", states |-> <<>>, a |-> NoTab,
                     b |-> NoTab, ret |-> TRUE, tabs0 |-> tabs, cur0 |-> current_tab_nb,
                     trimmed |-> 0, hooks |-> <<>>, steps |-> 0, diverged |-> FALSE]
        /\ EndRotation
        /\ UNCHANGED <<current_tab_nb, bufVars, loopVars, guiVars>>

NextConfig == NextTabs \/ OnGapsConfigChange

SpecConfig == InitTabs /\ [][NextConfig]_vars

----------------------------------------------------------------------------
(* Properties of the tab list *)

Min(S) == CHOOSE x \in S : \A y \in S : x <= y

\* the last call was a successful insert_tab
Moved == tabOp.name = "insert_tab" /\ tabOp.ret

\* C1: in gap mode, after every add_tab / insert_tab / close_tab (and
\* rotation) the tab list does not end with a Gap and tabs[0] is not a Gap.
GapInvariant ==
    create_gaps => /\ Len(tabs) > 0
                   /\ At(tabs, 0) # GapTab
                   /\ At(tabs, Len(tabs) - 1) # GapTab

\* C1, its case: in gap mode, closing the last tab took the Gaps before it
\* with it.
GapInvariantWitness ==
    /\ create_gaps
    /\ tabOp.name = "close_tab" /\ tabOp.ret
    /\ Len(tabs) + 1 < Len(tabOp.tabs0)

\* C2, as claimed: after any sequence of add_tab, insert_tab, close_tab,
\* rotate_rooms_right and rotate_rooms_left the cursor is within the list and
\* on a tab that is not a Gap.
FocusCursorInvariant == ValidCursor(tabs, current_tab_nb)

\* C3, as claimed: in gap mode a successful insert_tab changes the number of
\* no tab other than the moved one and removes at most one Gap besides the
\* trailing ones.
NumberingStabilityClaimed ==
    (create_gaps /\ Moved) =>
        LET s0 == tabOp.tabs0
            moved == At(s0, tabOp.a)
        IN /\ \A i \in 1 .. (Len(s0) - 1) :
                  At(s0, i) \notin {GapTab, moved} =>
                      i < Len(tabs) /\ At(tabs, i) = At(s0, i)
           /\ NumGaps(tabs) + tabOp.trimmed >= NumGaps(s0)

\* C3, amended: in gap mode a successful insert_tab(old_pos, new_pos) keeps
\* the number of every tab other than the moved one when the destination is
\* a Gap or past the end; when the destination holds a tab, the tabs from
\* new_pos up to the first Gap (or the vacated slot) on its right, or the end
\* of the list, move up by exactly one and all others keep their number.  It
\* removes at most one Gap besides the trailing ones.
NumberingStability ==
    (create_gaps /\ Moved) =>
        LET s0 == tabOp.tabs0
            old_pos == tabOp.a
            new_pos == tabOp.b
            moved == At(s0, old_pos)
            targetIsTab == new_pos < Len(s0) /\ At(s0, new_pos) # GapTab
            stops == {j \in (new_pos + 1) .. (Len(s0) - 1) :
                          At(s0, j) = GapTab \/ j = old_pos}
            stop == IF stops = {} THEN Len(s0) ELSE Min(stops)
            number(i) == IF targetIsTab /\ new_pos <= i /\ i < stop
                         THEN i + 1 ELSE i
        IN /\ \A i \in 1 .. (Len(s0) - 1) :
                  At(s0, i) \notin {GapTab, moved} =>
                      number(i) < Len(tabs) /\ At(tabs, number(i)) = At(s0, i)
           /\ NumGaps(tabs) + tabOp.trimmed >= NumGaps(s0)

\* C3, its case: a tab was moved onto the slot of another tab, which moved up.
NumberingStabilityWitness ==
    /\ create_gaps /\ Moved
    /\ tabOp.b < Len(tabOp.tabs0)
    /\ At(tabOp.tabs0, tabOp.b) # GapTab
    /\ At(tabs, tabOp.b + 1) = At(tabOp.tabs0, tabOp.b)
    /\ NumGaps(tabs) > 0

\* C4: on a tab list with k tabs that are not Gaps, k consecutive
\* rotate_rooms_right calls from a focused tab focus k different tabs, none a
\* Gap, so every tab once, and end on the tab they started from.
RotationTotality ==
    rotStart # NoTab =>
        LET k == Cardinality(RealTabs(tabs)) IN
        /\ Len(rotSeq) <= k
        /\ \A i \in 1 .. Len(rotSeq) : ValidCursor(tabs, rotSeq[i])
        /\ \A i, j \in 1 .. Len(rotSeq) : i # j => rotSeq[i] # rotSeq[j]
        /\ Len(rotSeq) = k => rotSeq[k] = rotStart

\* C4, its case: a full cycle over three tabs with a Gap among them.
RotationTotalityWitness ==
    /\ rotStart # NoTab
    /\ Len(rotSeq) = 3
    /\ Cardinality(RealTabs(tabs)) = 3
    /\ NumGaps(tabs) > 0

\* C9, as claimed: insert_tab fails and changes nothing when old_pos = new_pos,
\* old_pos holds a Gap, or either index is outside [1, len(tabs)).
InsertTabRejectsClaimed ==
    tabOp.name = "insert_tab" =>
        LET s0 == tabOp.tabs0
            inRange(i) == 1 <= i /\ i < Len(s0)
        IN ( \/ tabOp.a = tabOp.b
             \/ ~inRange(tabOp.a)
             \/ ~inRange(tabOp.b)
             \/ At(s0, tabOp.a) = GapTab )
           => /\ ~tabOp.ret
              /\ tabs = s0
              /\ current_tab_nb = tabOp.cur0

\* C9, amended: insert_tab fails and changes nothing when old_pos = new_pos,
\* old_pos holds a Gap, old_pos is outside [1, len(tabs)), or new_pos < 1
\* (a new_pos at or past len(tabs) is accepted: the tab moves to the end).
InsertTabRejects ==
    tabOp.name = "insert_tab" =>
        LET s0 == tabOp.tabs0
            inRange(i) == 1 <= i /\ i < Len(s0)
        IN ( \/ tabOp.a = tabOp.b
             \/ ~inRange(tabOp.a)
             \/ tabOp.b < 1
             \/ At(s0, tabOp.a) = GapTab )
           => /\ ~tabOp.ret
              /\ tabs = s0
              /\ current_tab_nb = tabOp.cur0

\* C9, its case: a move of a Gap to another position was refused.
InsertTabRejectsWitness ==
    /\ tabOp.name = "insert_tab"
    /\ 1 <= tabOp.a /\ tabOp.a < Len(tabOp.tabs0)
    /\ At(tabOp.tabs0, tabOp.a) = GapTab
    /\ 1 <= tabOp.b /\ tabOp.b # tabOp.a
    /\ ~tabOp.ret

\* C10, as claimed: in no-gap mode a successful insert_tab(old_pos, new_pos)
\* with both indices in [1, len(tabs)) leaves the moved tab at new_pos, shifts
\* the tabs between the two positions by one and leaves the others in place.
NoGapMoveClaimed ==
    (~create_gaps /\ Moved /\ tabOp.b < Len(tabOp.tabs0)) =>
        LET s0 == tabOp.tabs0
            old_pos == tabOp.a
            new_pos == tabOp.b
        IN /\ Len(tabs) = Len(s0)
           /\ At(tabs, new_pos) = At(s0, old_pos)
           /\ \A i \in 0 .. (Len(s0) - 1) :
                 At(tabs, IF old_pos < i /\ i <= new_pos THEN i - 1
                          ELSE IF new_pos <= i /\ i < old_pos THEN i + 1
                          ELSE IF i = old_pos THEN new_pos
                          ELSE i) = At(s0, i)

ClosedRoster == tabOp.name = "close_tab" /\ ~tabOp.ret

Closed == tabOp.name = "close_tab" /\ tabOp.ret /\ At(tabOp.tabs0, tabOp.b) # GapTab

Last(s) == s[Len(s)]

Rotated(d) == tabOp.name = (IF d = 1 THEN "rotate_rooms_right" ELSE "rotate_rooms_left")

\* the index k steps from index i in direction d, wrapping around the ends
Wrap(len, i, d, k) == (i + d * k) % len

Skipped == Rotated(1) \/ Rotated(-1) \/ Closed

\* C30: tabs[0] is never a Gap, and in rotate_rooms_right, rotate_rooms_left
\* and close_tab the loop that skips the Gaps ends: the cursor is moved
\* len(tabs) times at most (the first step of a rotation included) and then
\* rests on a tab that is not a Gap.
RotationTermination ==
    /\ At(tabs, 0) # GapTab
    /\ Skipped =>
           /\ ~tabOp.diverged
           /\ tabOp.steps <= Len(tabs)
           /\ ValidCursor(tabs, current_tab_nb)

\* C30, its case: in a list of four entries, a rotation to the right from
\* the roster tab went over two Gaps, in three steps of the cursor.
RotationTerminationWitness ==
    /\ Rotated(1)
    /\ Len(tabs) = 4
    /\ tabOp.cur0 = 0
    /\ tabOp.steps = 3
    /\ current_tab_nb = 3

\* the tabs of the list that are not Gaps, in their order
NonGaps(s) == SelectSeq(s, LAMBDA t : t # GapTab)

\* the list without the tab x
Without(s, x) == SelectSeq(s, LAMBDA t : t # x)

\* C33: after a successful insert_tab, in gap mode or not, the tabs of the
\* list that are not Gaps are those that were in it before; the moved tab is
\* in it once, as is every other tab; and the tabs other than the moved one
\* are in the order they were in.
MovePreservesTabs ==
    Moved =>
        LET tab == At(tabOp.tabs0, tabOp.a) IN
        /\ RealTabs(tabs) = RealTabs(tabOp.tabs0)
        /\ \A t \in RealTabs(tabs) : Cardinality({i \in 1 .. Len(tabs) : tabs[i] = t}) = 1
        /\ Without(NonGaps(tabs), tab) = Without(NonGaps(tabOp.tabs0), tab)

\* C33, its case: in gap mode the tab 1 of three was moved past the end: it
\* left a Gap and is now after the tab that followed it.
MovePreservesTabsWitness ==
    /\ Moved
    /\ create_gaps
    /\ tabOp.tabs0 = <<RosterInfoTab, 2, 3>>
    /\ tabOp.a = 1
    /\ tabs = <<RosterInfoTab, GapTab, 3, 2>>

\* the tab that Core.current_tab() returns
FocusedTab(s, cur) == At(s, current_tab(s, cur))

\* C34, as claimed: the focused tab (when it is a tab, not a Gap) is the
\* same tab before and after close_tab of another tab, a successful
\* insert_tab, and an on_gaps_config_change that removes Gaps.
FocusIdentity ==
    LET before == FocusedTab(tabOp.tabs0, tabOp.cur0)
        after == FocusedTab(tabs, current_tab_nb)
        restructured ==
            \/ tabOp.name = "close_tab" /\ tabOp.ret /\ At(tabOp.tabs0, tabOp.b) # before
            \/ Moved
            \/ tabOp.name = "on_gaps_config_change" /\ tabs # tabOp.tabs0
    IN (restructured /\ before # GapTab) => after = before

\* C35, as claimed: in both modes, an insert_tab of the last tab of the list
\* to a position past the end (the default new_pos included) leaves the tab
\* list as it was.
MoveLastToEnd ==
    (/\ tabOp.name = "insert_tab"
     /\ tabOp.a = Len(tabOp.tabs0) - 1
     /\ tabOp.a > 0
     /\ tabOp.b >= Len(tabOp.tabs0))
    => tabs = tabOp.tabs0

\* the position of the tab t in the list s
PositionOf(s, t) == CHOOSE i \in 1 .. Len(s) : s[i] = t

\* C36: while create_gaps is false the tab list holds no Gap, whatever
\* add_tab, insert_tab, close_tab, rotations and changes of the option came
\* before; and on_gaps_config_change with a value that reads "false" gives a
\* list with no Gap, with the same tabs, each once, in the order they were
\* in.
NoGapMode ==
    /\ ~create_gaps => NumGaps(tabs) = 0
    /\ \A value \in GapsValues :
           lower(value) = "false" =>
               LET r == on_gaps_config_change(tabs, value) IN
               /\ NumGaps(r) = 0
               /\ RealTabs(r) = RealTabs(tabs)
               /\ Len(r) = Cardinality(RealTabs(tabs))
               /\ \A x, y \in RealTabs(tabs) :
                      PositionOf(r, x) < PositionOf(r, y)
                          <=> PositionOf(tabs, x) < PositionOf(tabs, y)

\* C36, its case: the option was made false while the list held a Gap and
\* three tabs, one of which had been moved behind another.
NoGapModeWitness ==
    /\ ~create_gaps
    /\ tabOp.name = "on_gaps_config_change"
    /\ tabOp.tabs0 = <<RosterInfoTab, GapTab, 3, 2>>
    /\ tabs = <<RosterInfoTab, 3, 2>>

----------------------------------------------------------------------------
(* text_buffer.py: messages *)

\* Python's None where a string, a time or an object is expected
None == "None"

\* a text is a sequence of characters; the control character '\x19' is
\* written "x19"
ME_PREFIX == <<"/", "m", "e", " ">>
TAB == "\\t"

\* '\x19%(info_col)s}' % {'info_col': get_theme().COLOR_ME_MESSAGE[0]}
ME_COLOR == <<"x19", "COLOR_ME_MESSAGE", "}">>

\* the '\x19o' that ends every text
END_ATTR == <<"x19", "o">>

\* txt.startswith('/me ')
StartsWithMe(txt) == Len(txt) >= 4 /\ SubSeq(txt, 1, 4) = ME_PREFIX

\* txt.replace('\t', '    ')
RECURSIVE ReplaceTabs(_)
ReplaceTabs(txt) ==
    IF txt = <<>> THEN <<>>
    ELSE (IF Head(txt) = TAB THEN <<" ", " ", " ", " ">> ELSE <<Head(txt)>>)
         \o ReplaceTabs(Tail(txt))

\* datetime.now()
Now == "t_now"

\* time.strftime("%Y-%m-%d %H:%M:%S") when long, time.strftime("%H:%M:%S")
\* otherwise, of the two times of the model
strftime(time, long) ==
    IF time = Now
    THEN (IF long THEN "2013-06-01 12:00:00" ELSE "12:00:00")
    ELSE (IF long THEN "2013-05-31 09:30:00" ELSE "09:30:00")

\* TextBuffer.make_message; old_message is <<>> for None, <<m>> for a message m
make_message(txt, time, nickname, nick_color, history, user, identifier, str_time, highlight, old_message, revisions) ==
    LET time1 == IF time = None THEN Now ELSE time
        me == StartsWithMe(txt)
        txt1 == IF me THEN ME_COLOR \o SubSeq(txt, 5, Len(txt)) ELSE txt
    IN [txt |-> ReplaceTabs(txt1) \o END_ATTR,
        nick_color |-> nick_color,
        time |-> time1,
        str_time |-> IF str_time = None THEN strftime(time1, history) ELSE "",
        nickname |-> nickname,
        user |-> user,
        identifier |-> identifier,
        highlight |-> highlight,
        me |-> me,
        old_message |-> old_message,
        revisions |-> revisions]

\* a slip: pop() for pop(0), the newest message is dropped
RECURSIVE PopBackWhileOver(_, _)
PopBackWhileOver(msgs, limit) ==
    IF Len(msgs) > limit THEN PopBackWhileOver(PopLast(msgs), limit) ELSE msgs

\* the loop `while len(self.messages) > self.messages_nb_limit: self.messages.pop(0)`
RECURSIVE PopFrontWhileOver(_, _)
PopFrontWhileOver(msgs, limit) ==
    IF Len(msgs) > limit THEN PopFrontWhileOver(Pop(msgs, 0), limit) ELSE msgs

\* a slip: the window is scrolled whatever its pos
RECURSIVE NotifyWindowsAlwaysScroll(_, _, _, _)
NotifyWindowsAlwaysScroll(wins, msg, nbs, k) ==
    IF k > Len(wins) THEN <<>>
    ELSE <<[call |-> "build_new_message", win |-> wins[k].id, msg |-> msg],
           [call |-> "scroll_up", win |-> wins[k].id, nb |-> nbs[k]]>>
         \o NotifyWindowsAlwaysScroll(wins, msg, nbs, k + 1)

\* the loop of add_message over the windows: the calls it makes, in order.
\* nbs[k] is what the k-th window's build_new_message returns.
RECURSIVE NotifyWindows(_, _, _, _)
NotifyWindows(wins, msg, nbs, k) ==
    IF k > Len(wins) THEN <<>>
    ELSE <<[call |-> "build_new_message", win |-> wins[k].id, msg |-> msg]>>
         \o (IF wins[k].pos # 0
             THEN <<[call |-> "scroll_up", win |-> wins[k].id, nb |-> nbs[k]]>>
             ELSE <<>>)
         \o NotifyWindows(wins, msg, nbs, k + 1)

\* TextBuffer.add_message
add_message(msgs, wins, limit, a, nbs) ==
    LET msg == make_message(a.txt, a.time, a.nickname, a.nick_color, a.history,
                            a.user, a.identifier, a.str_time, a.highlight, <<>>, 0)
        ret_val == IF Len(wins) = 0 THEN 0 ELSE nbs[1]
    IN [messages |-> PopFrontWhileOver(Append(msgs, msg), limit),
        msg |-> msg,
        calls |-> NotifyWindows(wins, msg, nbs, 1),
        ret |-> IF ret_val = 0 THEN 1 ELSE ret_val]

\* a slip: the identifier is not compared, any message is taken
HoldingAny(msgs, old_id) == 0 .. (Len(msgs) - 1)

\* the scan of modify_message: the indices holding old_id
Holding(msgs, old_id) == {i \in 0 .. (Len(msgs) - 1) : At(msgs, i).identifier = old_id}

Max(S) == CHOOSE x \in S : \A y \in S : x >= y

\* a slip: a correction that names no user passes the check
WrongUserUnlessNone(msg, user) == msg.user # None /\ user # None /\ msg.user # user

\* modify_message: `msg.user and msg.user is not user`
WrongUser(msg, user) == msg.user # None /\ msg.user # user

\* a slip: >= for >, the short form of the time counts as long
DelayedFromEight(msg) == Len(msg.str_time) >= 8

\* modify_message: `len(msg.str_time) > 8`
Delayed(msg) == Len(msg.str_time) > 8

\* a slip: revisions is copied, not incremented
ReplacementSameRevisions(msg, txt, new_id, highlight, time) ==
    make_message(txt, IF time # None THEN time ELSE msg.time, msg.nickname,
                 msg.nick_color, FALSE, msg.user, new_id, None, highlight,
                 <<msg>>, msg.revisions)

\* a slip: the replaced message is not kept as old_message
ReplacementForgetsOld(msg, txt, new_id, highlight, time) ==
    make_message(txt, IF time # None THEN time ELSE msg.time, msg.nickname,
                 msg.nick_color, FALSE, msg.user, new_id, None, highlight,
                 <<>>, msg.revisions + 1)

\* a slip: the user of the replaced message is not passed on
ReplacementAnonymous(msg, txt, new_id, highlight, time) ==
    make_message(txt, IF time # None THEN time ELSE msg.time, msg.nickname,
                 msg.nick_color, FALSE, None, new_id, None, highlight,
                 <<msg>>, msg.revisions + 1)

\* a slip: the new message keeps the identifier of the replaced one
ReplacementKeepsId(msg, txt, new_id, highlight, time) ==
    make_message(txt, IF time # None THEN time ELSE msg.time, msg.nickname,
                 msg.nick_color, FALSE, msg.user, msg.identifier, None, highlight,
                 <<msg>>, msg.revisions + 1)

\* modify_message: the message that replaces msg
Replacement(msg, txt, new_id, highlight, time) ==
    make_message(txt, IF time # None THEN time ELSE msg.time, msg.nickname,
                 msg.nick_color, FALSE, msg.user, new_id, None, highlight,
                 <<msg>>, msg.revisions + 1)

\* a slip: the old message is removed and the new one appended
ReplaceAtEnd(msgs, i, message) == Append(Pop(msgs, i), message)

\* modify_message: `self.messages[i] = message`
Replace(msgs, i, message) == SetAt(msgs, i, message)

\* a slip: the scan runs from the oldest message, range(len(self.messages))
ScanFromOldest(msgs, old_id) == Min(Holding(msgs, old_id))

\* the scan of modify_message, `for i in range(len(self.messages) - 1, -1, -1)`:
\* the index at which `msg.identifier == old_id` is first true (some index
\* holds old_id); the loop is left there, by a raise or by the return
Scan(msgs, old_id) == Max(Holding(msgs, old_id))

\* TextBuffer.modify_message; result is "ok" or the CorrectionError raised
modify_message(msgs, txt, old_id, new_id, highlight, time, user) ==
    IF Holding(msgs, old_id) = {}
    THEN [result |-> "nothing to replace", messages |-> msgs, message |-> <<>>, index |-> -1]
    ELSE LET i == Scan(msgs, old_id)
             msg == At(msgs, i)
             message == Replacement(msg, txt, new_id, highlight, time)
         IN IF WrongUser(msg, user)
            THEN [result |-> "wrong user", messages |-> msgs, message |-> <<>>, index |-> i]
            ELSE IF Delayed(msg)
            THEN [result |-> "delayed message", messages |-> msgs, message |-> <<>>, index |-> i]
            ELSE [result |-> "ok", messages |-> Replace(msgs, i, message),
                  message |-> <<message>>, index |-> i]

----------------------------------------------------------------------------
(* The inputs of the buffer operations *)

Users == {None, "u1", "u2"}
Ids == {"a", "b"}

\* add_message(txt, time, nickname, nick_color, history, user, highlight,
\* identifier, str_time): a live message carries no time; a replayed one
\* (history) carries its time and, possibly, a display time already formatted
AddArg(user, history, str_time) ==
    [txt |-> <<"a">>, time |-> IF history THEN "t_old" ELSE None,
     nickname |-> "nick", nick_color |-> None, history |-> history, user |-> user,
     highlight |-> FALSE, identifier |-> "a", str_time |-> str_time]

AddArgs ==
    {AddArg(user, FALSE, None) : user \in {None, "u1"}}
    \cup {AddArg(user, TRUE, str_time) :
              user \in {None, "u1"}, str_time \in {None, "09:30:00"}}

\* modify_message(txt, old_id, new_id, highlight, time, user): the corrected
\* message is re-identified "b"
ModifyArgs ==
    {[txt |-> ME_PREFIX \o <<TAB>>, old_id |-> old_id, new_id |-> "b",
      highlight |-> FALSE, time |-> None, user |-> user] :
        old_id \in Ids, user \in Users}

Modify(msgs, m) ==
    modify_message(msgs, m.txt, m.old_id, m.new_id, m.highlight, m.time, m.user)

\* what build_new_message may return (the number of lines built)
Nbs == 0 .. 2

----------------------------------------------------------------------------
(* Actions on the buffer *)

InitBuf ==
    /\ tabs = <<RosterInfoTab>>
    /\ current_tab_nb = 0
    /\ create_gaps = FALSE
    /\ tabOp = NoTabOp
    /\ rotStart = NoTab
    /\ rotSeq = <<>>
    /\ messages = <<>>
    /\ windows = <<>>
    /\ attached = [id \in Windows |-> "never"]
    /\ corrections = <<>>
    /\ appended = 0
    /\ appendedAs = <<>>
    /\ bufOp = NoBufOp
    /\ InitLoopVars
    /\ InitGuiVars

\* TextBuffer.add_message(...), its arguments taken from args
AddMessageOf(args) ==
    \E a \in args, nbs \in [1 .. Len(windows) -> Nbs] :
        LET r == add_message(messages, windows, messages_nb_limit, a, nbs) IN
        /\ messages' = r.messages
        /\ corrections' = PopFrontWhileOver(Append(corrections, 0), messages_nb_limit)
        /\ appended' = IF appended > messages_nb_limit THEN appended ELSE appended + 1
        /\ appendedAs' = PopFrontWhileOver(
                              Append(appendedAs, [history |-> a.history, str_time |-> a.str_time]),
                              messages_nb_limit)
        /\ bufOp' = [name |-> "add_message", result |-> "ok",
                     index |-> Len(r.messages) - 1, calls |-> r.calls]
        /\ UNCHANGED <<windows, attached, tabVars, loopVars, guiVars>>

AddMessage == AddMessageOf(AddArgs)

\* TextBuffer.modify_message(...), its arguments taken from args
ModifyMessageOf(args) ==
    \E m \in args :
        LET r == Modify(messages, m) IN
        /\ r.result = "ok" => At(messages, r.index).revisions < MaxRevisions
        /\ messages' = r.messages
        /\ corrections' = IF r.result = "ok"
                          THEN SetAt(corrections, r.index, At(corrections, r.index) + 1)
                          ELSE corrections
        /\ bufOp' = [name |-> "modify_message", result |-> r.result,
                     index |-> r.index, calls |-> <<>>]
        /\ UNCHANGED <<windows, attached, appended, appendedAs, tabVars, loopVars, guiVars>>

ModifyMessage == ModifyMessageOf(ModifyArgs)

NextBuf == AddMessage \/ ModifyMessage

SpecBuf == InitBuf /\ [][NextBuf]_vars

----------------------------------------------------------------------------
(* The windows of the buffer *)

\* TextBuffer.add_window: win is a window with its pos
add_window(wins, win) == Append(wins, win)

\* a slip: pop() for remove(win), the window attached last is dropped
del_window_last(wins, win) == PopLast(wins)

\* TextBuffer.del_window
del_window(wins, win) == Remove(wins, win)

\* TextBuffer.add_window(win): win is a window that is not attached
AddWindow ==
    \E id \in Windows \ {windows[k].id : k \in 1 .. Len(windows)}, pos \in {0, 1} :
        /\ windows' = add_window(windows, [id |-> id, pos |-> pos])
        /\ attached' = [attached EXCEPT ![id] = "yes"]
        /\ bufOp' = [name |-> "add_window", result |-> "ok", index |-> id, calls |-> <<>>]
        /\ UNCHANGED <<messages, corrections, appended, appendedAs, tabVars, loopVars, guiVars>>

\* TextBuffer.del_window(win): list.remove raises ValueError when win is not
\* in the list
DelWindow ==
    \E id \in Windows :
        LET found == {k \in 1 .. Len(windows) : windows[k].id = id} IN
        /\ windows' = IF found = {} THEN windows
                      ELSE del_window(windows, windows[Min(found)])
        /\ attached' = IF found = {} THEN attached
                       ELSE [attached EXCEPT ![id] = "removed"]
        /\ bufOp' = [name |-> "del_window",
                     result |-> IF found = {} THEN "ValueError" ELSE "ok",
                     index |-> id, calls |-> <<>>]
        /\ UNCHANGED <<messages, corrections, appended, appendedAs, tabVars, loopVars, guiVars>>

\* with windows attached, the messages are live messages of no user, each
\* corrected once at most
LiveArgs == {AddArg(None, FALSE, None)}

AnonymousArgs == {m \in ModifyArgs : m.user = None /\ m.old_id = "a"}

AddLiveMessage == AddMessageOf(LiveArgs)

ModifyLiveMessage == ModifyMessageOf(AnonymousArgs)

NextWin == AddWindow \/ DelWindow \/ AddLiveMessage \/ ModifyLiveMessage

SpecWin == InitBuf /\ [][NextWin]_vars

----------------------------------------------------------------------------
(* Properties of the buffer *)

\* the last n elements of s, all of s when it is shorter
LastN(s, n) == IF Len(s) <= n THEN s ELSE SubSeq(s, Len(s) - n + 1, Len(s))

\* what build_new_message returns plays no part in the log
NoLines == [k \in 1 .. Len(windows) |-> 0]

\* C5: the log never holds more than messages_nb_limit messages; once more
\* than that many were appended it holds exactly that many; and every append
\* leaves the most recent messages_nb_limit slots of the log plus the new
\* message, in arrival order (the oldest are evicted first).
BoundedLog ==
    /\ Len(messages) <= messages_nb_limit
    /\ appended > messages_nb_limit => Len(messages) = messages_nb_limit
    /\ appended <= messages_nb_limit => Len(messages) = appended
    /\ \A a \in AddArgs :
           LET r == add_message(messages, windows, messages_nb_limit, a, NoLines)
           IN r.messages = LastN(Append(messages, r.msg), messages_nb_limit)

\* C5, its case: more messages were appended than the log holds, one of the
\* kept ones was corrected since.
BoundedLogWitness ==
    /\ appended > messages_nb_limit
    /\ Len(messages) = messages_nb_limit
    /\ \E i \in 1 .. Len(messages) : messages[i].revisions > 0

\* the message reached from ms (<<>> or <<m>>) by following old_message n
\* times; <<>> when the chain ends before
RECURSIVE FollowOld(_, _)
FollowOld(ms, n) ==
    IF n = 0 \/ ms = <<>> THEN ms ELSE FollowOld(ms[1].old_message, n - 1)

\* C6: a slot that was successfully corrected N times holds a message with
\* revisions = N, and following old_message N times from it reaches a
\* message whose old_message is None.
CorrectionChainIntegrity ==
    \A i \in 1 .. Len(messages) :
        LET N == corrections[i]
            origin == FollowOld(<<messages[i]>>, N)
        IN /\ messages[i].revisions = N
           /\ origin # <<>>
           /\ origin[1].old_message = <<>>

\* C6, its case: a slot corrected twice.
CorrectionChainWitness ==
    \E i \in 1 .. Len(messages) : corrections[i] = 2

\* C7: modify_message addressed to a message whose user is set and is not the
\* user supplied raises CorrectionError and leaves the log as it was.
CorrectionRejection ==
    \A m \in ModifyArgs :
        LET held == Holding(messages, m.old_id)
            r == Modify(messages, m)
        IN (held # {} /\ At(messages, Max(held)).user \notin {None, m.user})
           => /\ r.result = "wrong user"
              /\ r.messages = messages
              /\ r.message = <<>>

\* C7, its case: a correction was refused for its user; the log holds a
\* message of a set user.
CorrectionRejectionWitness ==
    /\ bufOp.name = "modify_message"
    /\ bufOp.result = "wrong user"
    /\ messages # <<>>
    /\ At(messages, bufOp.index).user = "u1"

\* C8: a successful modify_message keeps the length of the log and every
\* other slot, puts the new message in the slot of the corrected one, with
\* old_message the replaced message and revisions one more than its
\* revisions, and returns it.
InPlaceReplacement ==
    \A m \in ModifyArgs :
        LET r == Modify(messages, m) IN
        r.result = "ok" =>
            LET i == r.index
                old == At(messages, i)
                new == r.message[1]
            IN /\ i = Max(Holding(messages, m.old_id))
               /\ Len(r.messages) = Len(messages)
               /\ \A j \in 0 .. (Len(messages) - 1) :
                      j # i => At(r.messages, j) = At(messages, j)
               /\ At(r.messages, i) = new
               /\ new.old_message = <<old>>
               /\ new.revisions = old.revisions + 1
               /\ new.identifier = m.new_id

\* C8, its case: after an eviction, a message that is not the last of the
\* log was corrected and is still not the last.
InPlaceReplacementWitness ==
    /\ bufOp.name = "modify_message"
    /\ bufOp.result = "ok"
    /\ appended > messages_nb_limit
    /\ bufOp.index < Len(messages) - 1
    /\ At(messages, bufOp.index).revisions = 1
    /\ At(messages, bufOp.index).identifier = "b"

\* C17: modify_message with an old_id that no message of the log carries
\* (never appended, evicted, or re-identified by a correction) raises
\* CorrectionError and leaves the log as it was.
CorrectionNotFound ==
    \A m \in ModifyArgs :
        LET r == Modify(messages, m) IN
        (\A i \in 1 .. Len(messages) : messages[i].identifier # m.old_id)
        => /\ r.result = "nothing to replace"
           /\ r.messages = messages
           /\ r.message = <<>>

\* C17, its case: a correction found nothing to replace in a full log out of
\* which the first message was evicted and whose messages were all
\* re-identified by corrections.
CorrectionNotFoundWitness ==
    /\ bufOp.name = "modify_message"
    /\ bufOp.result = "nothing to replace"
    /\ appended > messages_nb_limit
    /\ \A i \in 1 .. Len(messages) : corrections[i] > 0 /\ messages[i].identifier = "b"

\* the slot modify_message(m) addresses: the last one that carries m.old_id
Addressed(m) == Max({i \in 1 .. Len(messages) : messages[i].identifier = m.old_id})

\* the slot was filled by a replay of history whose display time
\* make_message formatted (the long form)
Replayed(i) == appendedAs[i].history /\ appendedAs[i].str_time = None

\* C18, as claimed: modify_message addressed to a message appended as a
\* replay of history (long display time) raises CorrectionError("delayed
\* message") and leaves the log as it was; one addressed to a message
\* appended live is never refused as delayed.
DelayedRejectionClaimed ==
    \A m \in ModifyArgs :
        (\E i \in 1 .. Len(messages) : messages[i].identifier = m.old_id) =>
            LET r == Modify(messages, m) IN
            /\ Replayed(Addressed(m)) =>
                   r.result = "delayed message" /\ r.messages = messages
            /\ ~appendedAs[Addressed(m)].history => r.result # "delayed message"

\* C18, amended: modify_message addressed to a message appended as a replay
\* of history with the long display time leaves the log as it was and raises
\* CorrectionError("delayed message"), unless the message has a user that is
\* not the one supplied: then it raises CorrectionError("wrong user").  One
\* addressed to a message appended live, or appended as a replay with a
\* str_time of its own (its display time is then empty), is never refused as
\* delayed.
DelayedRejection ==
    \A m \in ModifyArgs :
        (\E i \in 1 .. Len(messages) : messages[i].identifier = m.old_id) =>
            LET r == Modify(messages, m)
                i == Addressed(m)
                other == messages[i].user # None /\ messages[i].user # m.user
            IN /\ Replayed(i) =>
                      /\ r.result = IF other THEN "wrong user" ELSE "delayed message"
                      /\ r.messages = messages
                      /\ r.message = <<>>
               /\ ~Replayed(i) => r.result # "delayed message"

\* C18, its case: a correction by its own user of a replayed message was
\* refused as delayed.
DelayedRejectionWitness ==
    /\ bufOp.name = "modify_message"
    /\ bufOp.result = "delayed message"
    /\ Replayed(bufOp.index + 1)
    /\ messages[bufOp.index + 1].user = "u1"

\* the calls of build_new_message that the last operation made
Builds == SelectSeq(bufOp.calls, LAMBDA c : c.call = "build_new_message")

CorrectionNotifies ==
    (bufOp.name = "modify_message" /\ bufOp.result = "ok") =>
        \A id \in Windows :
            attached[id] = "yes" => \E k \in 1 .. Len(bufOp.calls) : bufOp.calls[k].win = id

\* C29: every message of the log, and every message reached from one by
\* following old_message, has revisions = old_message.revisions + 1 when its
\* old_message is set and revisions = 0 when it is None; the chain of
\* old_message of a message of the log ends (on None) after revisions + 1
\* steps exactly, the revisions decreasing by one at each step, so that no
\* message is met twice.
RevisionInvariant ==
    \A i \in 1 .. Len(messages) :
        /\ \A n \in 0 .. MaxRevisions :
               LET ms == FollowOld(<<messages[i]>>, n) IN
               ms # <<>> =>
                   /\ ms[1].revisions = messages[i].revisions - n
                   /\ IF ms[1].old_message = <<>>
                      THEN ms[1].revisions = 0
                      ELSE ms[1].revisions = ms[1].old_message[1].revisions + 1
        /\ FollowOld(<<messages[i]>>, messages[i].revisions) # <<>>
        /\ FollowOld(<<messages[i]>>, messages[i].revisions + 1) = <<>>

\* C29, its case: after an eviction the log holds a message that replaced a
\* message that had itself replaced an appended message, next to a message
\* never corrected.
RevisionInvariantWitness ==
    /\ appended > messages_nb_limit
    /\ \E i, j \in 1 .. Len(messages) :
           /\ messages[j].old_message = <<>>
           /\ messages[i].old_message # <<>>
           /\ messages[i].old_message[1].old_message # <<>>
           /\ messages[i].old_message[1].old_message[1].old_message = <<>>
           /\ messages[i].old_message[1].identifier = "b"

\* the positions, in the calls made, of the calls of `call` on the window id
CallsOn(calls, call, id) == {j \in 1 .. Len(calls) : calls[j].call = call /\ calls[j].win = id}

\* C21: in add_message, a window whose pos is not 0 gets one scroll_up call,
\* right after its own build_new_message call and with the number of lines
\* that this call returned; a window whose pos is 0 gets no scroll_up call.
AutoFollow ==
    \A a \in LiveArgs, nbs \in [1 .. Len(windows) -> Nbs] :
        LET calls == add_message(messages, windows, messages_nb_limit, a, nbs).calls IN
        \A k \in 1 .. Len(windows) :
            LET id == windows[k].id
                built == CallsOn(calls, "build_new_message", id)
                scrolled == CallsOn(calls, "scroll_up", id)
            IN IF windows[k].pos # 0
               THEN /\ Cardinality(scrolled) = 1
                    /\ \A j \in scrolled : j - 1 \in built /\ calls[j].nb = nbs[k]
               ELSE scrolled = {}

\* C21, its case: a message was appended with a window at pos 0 attached
\* first and a scrolled window attached after it, which built two lines.
AutoFollowWitness ==
    /\ bufOp.name = "add_message"
    /\ Len(windows) = 2
    /\ windows[1].pos = 0 /\ windows[2].pos # 0
    /\ Len(bufOp.calls) = 3
    /\ bufOp.calls[3] = [call |-> "scroll_up", win |-> windows[2].id, nb |-> 2]

\* the indices of the messages that carry old_id and that a correction by
\* `user` would be allowed to replace
Passing(msgs, old_id, user) ==
    {i \in Holding(msgs, old_id) :
        /\ At(msgs, i).user \in {None, user}
        /\ Len(At(msgs, i).str_time) <= 8}

\* C31: when several messages of the log carry old_id, modify_message deals
\* with the most recent of them only: on success that one is replaced and
\* the older ones are left as they are; when it fails the check of the
\* author or of the delay, the correction fails and the log is left as it
\* was, even when an older message carrying old_id would pass both checks.
ScanBackward ==
    \A m \in ModifyArgs :
        LET held == Holding(messages, m.old_id)
            r == Modify(messages, m)
        IN held # {} =>
            LET last == CHOOSE i \in held : \A j \in held : j <= i IN
            /\ r.index = last
            /\ \A j \in held \ {last} : At(r.messages, j) = At(messages, j)
            /\ IF last \in Passing(messages, m.old_id, m.user)
               THEN /\ r.result = "ok"
                    /\ At(r.messages, last) = r.message[1]
                    /\ r.message[1].old_message = <<At(messages, last)>>
               ELSE /\ r.result \in {"wrong user", "delayed message"}
                    /\ r.messages = messages

\* C31, its case: two messages of the log carry the same identifier; a
\* correction addressed to it was refused for its user, on the most recent
\* of the two, while the older one, of no user and appended live, would have
\* passed.
ScanBackwardWitness ==
    /\ bufOp.name = "modify_message"
    /\ bufOp.result = "wrong user"
    /\ Len(messages) = 2
    /\ bufOp.index = 1
    /\ At(messages, 0).identifier = At(messages, 1).identifier
    /\ At(messages, 1).user = "u1"
    /\ \A user \in Users : 0 \in Passing(messages, At(messages, 0).identifier, user)

\* C37: every message reached from a message of the log by following
\* old_message has the user and the nickname of that message; a successful
\* modify_message gives the new message the user and the nickname of the one
\* it replaces; and when the replaced message has a user, the call succeeds
\* only if it supplies that user.
OwnershipPersists ==
    /\ \A i \in 1 .. Len(messages), n \in 0 .. MaxRevisions :
           LET ms == FollowOld(<<messages[i]>>, n) IN
           ms # <<>> => /\ ms[1].user = messages[i].user
                        /\ ms[1].nickname = messages[i].nickname
    /\ \A m \in ModifyArgs :
           LET r == Modify(messages, m) IN
           r.result = "ok" =>
               LET old == At(messages, r.index) IN
               /\ r.message[1].user = old.user
               /\ r.message[1].nickname = old.nickname
               /\ old.user # None => m.user = old.user

\* C37, its case: a message of the user u1 was corrected twice; it is in the
\* log next to a message of no user that was corrected too.
OwnershipPersistsWitness ==
    /\ bufOp.name = "modify_message"
    /\ bufOp.result = "ok"
    /\ \E i, j \in 1 .. Len(messages) :
           /\ messages[i].user = "u1" /\ messages[i].revisions = 2
           /\ messages[j].user = None /\ messages[j].revisions = 1

\* C38, as claimed: after a successful modify_message(old_id, new_id) with
\* new_id # old_id on a log in which one message only carried old_id, a
\* correction addressed to old_id raises CorrectionError("nothing to
\* replace") and one addressed to new_id deals with the corrected message.
SlotReidentifiedClaimed ==
    \A m \in ModifyArgs :
        LET r == Modify(messages, m) IN
        (/\ r.result = "ok"
         /\ m.new_id # m.old_id
         /\ Cardinality(Holding(messages, m.old_id)) = 1) =>
            \A m2 \in ModifyArgs :
                LET r2 == Modify(r.messages, m2) IN
                /\ m2.old_id = m.old_id => r2.result = "nothing to replace"
                /\ m2.old_id = m.new_id => r2.index = r.index

\* C38, amended: after a successful modify_message(old_id, new_id) with
\* new_id # old_id on a log in which one message only carried old_id, a
\* correction addressed to old_id raises CorrectionError("nothing to
\* replace") and leaves the log as it was; one addressed to new_id finds a
\* message to deal with: the corrected message when no more recent message
\* of the log carries new_id, and the most recent message that carries
\* new_id otherwise.
SlotReidentified ==
    \A m \in ModifyArgs :
        LET r == Modify(messages, m) IN
        (/\ r.result = "ok"
         /\ m.new_id # m.old_id
         /\ Cardinality(Holding(messages, m.old_id)) = 1) =>
            \A m2 \in ModifyArgs :
                LET r2 == Modify(r.messages, m2)
                    later == {j \in (r.index + 1) .. (Len(r.messages) - 1) :
                                 At(r.messages, j).identifier = m.new_id}
                IN /\ m2.old_id = m.old_id =>
                          r2.result = "nothing to replace" /\ r2.messages = r.messages
                   /\ m2.old_id = m.new_id =>
                          /\ r2.result # "nothing to replace"
                          /\ At(r.messages, r.index) = r.message[1]
                          /\ IF later = {} THEN r2.index = r.index
                             ELSE r2.index \in later /\ \A j \in later : j <= r2.index

\* C38, its case: the only message that carried "a" was corrected and is now
\* the most recent message that carries "b", after another one.
SlotReidentifiedWitness ==
    /\ bufOp.name = "modify_message"
    /\ bufOp.result = "ok"
    /\ Len(messages) = 2
    /\ bufOp.index = 1
    /\ At(messages, 0).identifier = "b"
    /\ At(messages, 1).identifier = "b"
    /\ At(messages, 1).old_message[1].identifier = "a"

----------------------------------------------------------------------------
(* core.py: the jump to the tab with the most important activity *)

\* tabs.STATE_PRIORITY: the priority of the states a tab can be in
STATE_PRIORITY ==
    [x \in {"normal", "current", "message", "highlight", "private"} |->
        CASE x = "normal" -> -1
          [] x = "current" -> -1
          [] x = "message" -> 1
          [] x = "highlight" -> 2
          [] x = "private" -> 2]

\* priority.get(x, default)
PriorityGet(x, default) ==
    IF x \in DOMAIN STATE_PRIORITY THEN STATE_PRIORITY[x] ELSE default

\* tab_refs[x]: the numbers of the tabs (not Gaps) whose state is x, the
\* states being given by st, a function on the tabs of the list
TabRefs(s, st, x) == {i \in 0 .. (Len(s) - 1) : At(s, i) # GapTab /\ st[At(s, i)] = x}

\* tab_refs.keys(): the states of the tabs, in the order in which the loop
\* over self.tabs meets them first
TabRefKeys(s, st) ==
    LET first(i) == /\ At(s, i) # GapTab
                    /\ \A j \in 0 .. (i - 1) :
                           At(s, j) = GapTab \/ st[At(s, j)] # st[At(s, i)]
        firsts == SelectSeq([k \in 1 .. Len(s) |-> k - 1], first)
    IN [k \in 1 .. Len(firsts) |-> st[At(s, firsts[k])]]

\* sorted(keys, key=lambda x: priority.get(x, 0), reverse=True): a stable
\* sort, the states of equal priority keep their order
RECURSIVE SortedByPriority(_)
SortedByPriority(keys) ==
    IF keys = <<>> THEN <<>>
    ELSE LET top == Max({PriorityGet(keys[k], 0) : k \in 1 .. Len(keys)})
             isTop(x) == PriorityGet(x, 0) = top
             notTop(x) == PriorityGet(x, 0) # top
         IN SelectSeq(keys, isTop) \o SortedByPriority(SelectSeq(keys, notTop))

\* the states that are searched: sorted, those of negative priority removed
ImportantStates(s, st) ==
    LET wanted(x) == PriorityGet(x, -1) >= 0
    IN SelectSeq(SortedByPriority(TabRefKeys(s, st)), wanted)

\* a slip: no tab is passed over
PassedOverNever(nb, last, cur) == FALSE

\* the test of go_to_important_room for passing over a tab: it is behind the
\* cursor and the last tab of its list is ahead of it
PassedOver(nb, last, cur) == nb < cur /\ last > cur

\* the loops of go_to_important_room over the states and their tabs: the
\* number given to command_win, NoTab when the loops end without a call
RECURSIVE FirstImportant(_, _, _, _)
FirstImportant(s, st, cur, states) ==
    IF states = <<>> THEN NoTab
    ELSE LET refs == TabRefs(s, st, Head(states))
             kept == {nb \in refs : ~PassedOver(nb, Max(refs), cur)}
         IN IF kept # {} THEN Min(kept)
            ELSE FirstImportant(s, st, cur, Tail(states))

\* Core.go_to_important_room: the number given to command_win, or NoTab
go_to_important_room(s, st, cur) == FirstImportant(s, st, cur, ImportantStates(s, st))

\* Core.refresh_window leaves the focused tab in the state 'current': the
\* states the tabs of s can be in when the cursor is cur
StatesOfTabs(s, cur) ==
    LET others == [RealTabs(s) \ {At(s, cur)} -> DOMAIN STATE_PRIORITY \ {"current"}]
    IN {[t \in RealTabs(s) |-> IF t = At(s, cur) THEN "current" ELSE st[t]] :
           st \in others}

\* the tab lists of at most MaxLen entries that add_tab and close_tab build:
\* the roster tab, then tabs in the order of their creation and, in gap mode,
\* Gaps, the last entry being a tab
TabLists(gaps) ==
    LET lists == UNION {[1 .. n -> {GapTab} \cup OtherTabs] : n \in 0 .. (MaxLen - 1)}
        ordered(l) == \A i, j \in 1 .. Len(l) :
                          (i < j /\ l[i] # GapTab /\ l[j] # GapTab) => l[i] < l[j]
    IN {<<RosterInfoTab>> \o l : l \in
           {l \in lists : /\ ordered(l)
                          /\ Len(l) > 0 => l[Len(l)] # GapTab
                          /\ ~gaps => NumGaps(l) = 0}}

\* a tab list with one of its tabs focused
InitRoom ==
    /\ create_gaps \in BOOLEAN
    /\ tabs \in TabLists(create_gaps)
    /\ current_tab_nb \in {i \in 0 .. (Len(tabs) - 1) : At(tabs, i) # GapTab}
    /\ tabOp = NoTabOp
    /\ rotStart = NoTab
    /\ rotSeq = <<>>
    /\ messages = <<>>
    /\ windows = <<>>
    /\ attached = [id \in Windows |-> "never"]
    /\ corrections = <<>>
    /\ appended = 0
    /\ appendedAs = <<>>
    /\ bufOp = NoBufOp
    /\ InitLoopVars
    /\ InitGuiVars

\* Core.go_to_important_room(), the tabs being in the states st
GoToImportantRoom ==
    \E st \in StatesOfTabs(tabs, current_tab_nb) :
        \E nb \in {go_to_important_room(tabs, st, current_tab_nb)} :
        /\ current_tab_nb' = IF nb = NoTab THEN current_tab_nb
                             ELSE command_win(tabs, current_tab_nb, nb)
        /\ tabOp' = [name |-> "go_to_important_room", states |-> st, a |-> nb,
                     b |-> NoTab, ret |-> nb # NoTab, tabs0 |-> tabs,
                     cur0 |-> current_tab_nb, trimmed |-> 0, hooks |-> <<>>, steps |-> 0, diverged |-> FALSE]
        /\ EndRotation
        /\ UNCHANGED <<tabs, create_gaps, bufVars, loopVars, guiVars>>

NextRoom == GoToImportantRoom

SpecRoom == InitRoom /\ [][NextRoom]_vars

\* the last call was go_to_important_room
Jumped == tabOp.name = "go_to_important_room"

\* C16: go_to_important_room considers the tabs that are not Gaps and whose
\* state has a priority that is not negative.  When there is none, it asks for
\* no jump and the cursor stays.  Otherwise it jumps to a tab whose state has
\* the highest priority among them, and among the tabs in that state to the
\* first whose number is not below the cursor, or to the first of them when
\* none is.
ImportantRoom ==
    Jumped =>
        LET st == tabOp.states
            cur == tabOp.cur0
            nb == tabOp.a
            priority(i) == STATE_PRIORITY[st[At(tabs, i)]]
            important == {i \in 0 .. (Len(tabs) - 1) :
                              At(tabs, i) # GapTab /\ priority(i) >= 0}
        IN /\ tabs = tabOp.tabs0
           /\ IF important = {}
              THEN ~tabOp.ret /\ nb = NoTab /\ current_tab_nb = cur
              ELSE LET same == {i \in important : st[At(tabs, i)] = st[At(tabs, nb)]}
                       ahead == {i \in same : i >= cur}
                   IN /\ tabOp.ret /\ nb \in important
                      /\ \A i \in important : priority(i) <= priority(nb)
                      /\ nb = IF ahead # {} THEN Min(ahead) ELSE Min(same)
                      /\ current_tab_nb = nb

\* C16, its case: the jump went to a tab after the cursor, past a tab in the
\* same state before the cursor and past a tab of lower priority.
ImportantRoomWitness ==
    /\ Jumped /\ tabOp.ret
    /\ current_tab_nb > tabOp.cur0
    /\ \E i \in 0 .. (tabOp.cur0 - 1) :
           At(tabs, i) # GapTab /\ tabOp.states[At(tabs, i)] = tabOp.states[At(tabs, tabOp.a)]
    /\ \E i \in 0 .. (Len(tabs) - 1) :
           /\ At(tabs, i) # GapTab
           /\ STATE_PRIORITY[tabOp.states[At(tabs, i)]] >= 0
           /\ STATE_PRIORITY[tabOp.states[At(tabs, i)]] <
                  STATE_PRIORITY[tabOp.states[At(tabs, tabOp.a)]]

----------------------------------------------------------------------------
(* core.py: the keys.  A key is the sequence of its characters, so that
   len(key) is Len(key); the character '\x1f' is written "x1f". *)

X1F == <<"x1f">>
CTRL_SLASH == <<"^", "/">>
CTRL_I == <<"^", "I">>
CTRL_J == <<"^", "J">>
KEY_BACKSPACE == <<"K", "E", "Y", "_", "B", "A", "C", "K", "S", "P", "A", "C", "E">>

\* the loop of separate_chars_from_bindings from the i-th key on, res and
\* current being its two lists; paste is `len(char_list) != 1`
RECURSIVE SeparateFrom(_, _, _, _, _)
SeparateFrom(keys, i, runs, current, paste) ==
    LET flushed == IF current # <<>> THEN Append(runs, current) ELSE runs IN
    IF i > Len(keys) THEN flushed
    ELSE LET char == IF keys[i] = X1F THEN CTRL_SLASH ELSE keys[i] IN
         IF Len(char) = 1
         THEN SeparateFrom(keys, i + 1, runs, Append(current, char), paste)
         ELSE IF char = CTRL_I /\ paste
         THEN SeparateFrom(keys, i + 1, runs, Append(current, <<TAB>>), paste)
         ELSE SeparateFrom(keys, i + 1, Append(flushed, <<char>>), <<>>, paste)

\* a slip: ^I is taken for a tab character even when it is the only key
separate_chars_always_paste(keys) == SeparateFrom(keys, 1, <<>>, <<>>, TRUE)

\* main_loop.separate_chars_from_bindings
separate_chars_from_bindings(keys) == SeparateFrom(keys, 1, <<>>, <<>>, Len(keys) # 1)

\* the sequences of at most n elements of S
SeqsUpTo(S, n) == UNION {[1 .. k -> S] : k \in 0 .. n}

\* the batches given to separate_chars_from_bindings
CharLists == SeqsUpTo({<<"a">>, <<"b">>, X1F, CTRL_I, KEY_BACKSPACE}, MaxBatch)

\* a batch of keys is at hand
InitKeys ==
    /\ tabs = <<RosterInfoTab>>
    /\ current_tab_nb = 0
    /\ create_gaps = FALSE
    /\ tabOp = NoTabOp
    /\ rotStart = NoTab
    /\ rotSeq = <<>>
    /\ messages = <<>>
    /\ windows = <<>>
    /\ attached = [id \in Windows |-> "never"]
    /\ corrections = <<>>
    /\ appended = 0
    /\ appendedAs = <<>>
    /\ bufOp = NoBufOp
    /\ paused = FALSE
    /\ previous_tab_nb = 0
    /\ looping = TRUE
    /\ loopOp = NoLoopOp
    /\ char_list \in CharLists
    /\ res = <<>>
    /\ timed_events = {}
    /\ timerOp = NoTimerOp
    /\ deadline = [e \in Events |-> "new"]
    /\ InitGuiVars

\* separate_chars_from_bindings(char_list); res is <<>> before the call and
\* <<the list returned>> after it
SeparateChars ==
    /\ res = <<>>
    /\ res' = <<separate_chars_from_bindings(char_list)>>
    /\ UNCHANGED <<char_list, paused, previous_tab_nb, looping, loopOp, timerVars,
                   tabVars, bufVars, guiVars>>

NextKeys == SeparateChars

SpecKeys == InitKeys /\ [][NextKeys]_vars

\* the concatenation of the lists of a list
RECURSIVE Flatten(_)
Flatten(lists) == IF lists = <<>> THEN <<>> ELSE Head(lists) \o Flatten(Tail(lists))

\* a run of characters: every key of it is one character
PlainRun(run) == \A k \in 1 .. Len(run) : Len(run[k]) = 1

\* C22: the runs returned by separate_chars_from_bindings, concatenated in
\* their order, are the keys given, with '\x1f' replaced by '^/' and, when
\* more than one key is given, '^I' by a tab character; no run is empty; a
\* key of more than one character is alone in its run; and no two adjacent
\* runs are both runs of characters.
BatchSplitting ==
    res # <<>> =>
        LET runs == res[1]
            remapped == [k \in 1 .. Len(char_list) |->
                            IF char_list[k] = X1F THEN CTRL_SLASH
                            ELSE IF char_list[k] = CTRL_I /\ Len(char_list) > 1 THEN <<TAB>>
                            ELSE char_list[k]]
        IN /\ Flatten(runs) = remapped
           /\ \A r \in 1 .. Len(runs) : runs[r] # <<>>
           /\ \A r \in 1 .. Len(runs) : PlainRun(runs[r]) \/ Len(runs[r]) = 1
           /\ \A r \in 1 .. (Len(runs) - 1) : ~(PlainRun(runs[r]) /\ PlainRun(runs[r + 1]))

\* C22, its case: two characters, a special key, two characters, as in
\* ['a', 'b', 'KEY_BACKSPACE', '^I', 'b'], were split into three runs.
BatchSplittingWitness ==
    /\ res = <<<< <<<<"a">>, <<"b">>>>, <<KEY_BACKSPACE>>, <<<<TAB>>, <<"b">>>> >>>>
    /\ char_list[4] = CTRL_I

----------------------------------------------------------------------------
(* core.py: the main loop *)

CTRL_B == <<"^", "B">>
CTRL_K == <<"^", "K">>
CTRL_L == <<"^", "L">>
META_1 == <<"M", "-", "1">>

\* the prefix of the keys that stand for a command, and two such keys
EXC == <<"_", "e", "x", "c", "_">>
EXC_OK == EXC \o <<"o", "k">>
EXC_KO == EXC \o <<"k", "o">>

\* the section 'bindings' of the configuration: ^K is bound to the command
\* /ok and ^L to the command /ko
bindings(key) ==
    IF key = CTRL_K THEN EXC_OK
    ELSE IF key = CTRL_L THEN EXC_KO
    ELSE <<>>

\* replace_key_with_bound
replace_key_with_bound(key) == IF bindings(key) = <<>> THEN key ELSE bindings(key)

\* main_loop.replace_line_breaks
replace_line_breaks(key) == IF key = CTRL_J THEN <<"\\n">> ELSE key

\* int(c) for a character c: DigitChars[nb + 1] is '%d' % nb
DigitChars == <<"0", "1", "2", "3", "4", "5", "6", "7", "8", "9">>

IsDigit(c) == \E n \in 1 .. Len(DigitChars) : DigitChars[n] = c

int(c) == (CHOOSE n \in 1 .. Len(DigitChars) : DigitChars[n] = c) - 1

\* the commands whose handler raises an exception: execute_command on
\* their line raises
RaisingLines == {<<"/">> \o SubSeq(EXC_KO, Len(EXC) + 1, Len(EXC_KO))}

\* what the focused tab's on_line_up may do: return True, return None, or
\* raise an exception
LineUps == {"True", "None", "raise"}

\* a call made by main_loop while it handles the run of number `run` (0:
\* after the last run), appended to the calls made so far, with the cursor
\* at the time of the call.  A state of the loop is the cursor, the calls
\* made and whether an exception is propagating.
Call(st, run, call, arg, raw) ==
    [st EXCEPT !.calls = Append(@, [call |-> call, arg |-> arg, raw |-> raw,
                                    run |-> run, cur |-> st.cur])]

\* self.current_tab(): the cursor is normalised
Focused(s, st) == [st EXCEPT !.cur = current_tab(s, @)]

\* self.command_win('%d' % nb)
CallCommandWin(s, st, run, nb) ==
    [Call(st, run, "command_win", <<DigitChars[nb + 1]>>, FALSE)
        EXCEPT !.cur = command_win(s, st.cur, nb)]

\* Core.go_to_previous_tab
go_to_previous_tab(s, st, run, prev) ==
    CallCommandWin(s, Call(st, run, "go_to_previous_tab", <<>>, FALSE), run, prev)

\* Core.doupdate
doupdate(st, run) == Call(st, run, "doupdate", <<>>, FALSE)

\* Core.refresh_window
refresh_window(s, st, run) ==
    doupdate(Call(Focused(s, st), run, "refresh", <<>>, FALSE), run)

\* Core.scroll_line_up
scroll_line_up(s, st, run, line_up) ==
    LET st1 == Call(Focused(s, st), run, "on_line_up", <<>>, FALSE) IN
    IF line_up = "raise" THEN [st1 EXCEPT !.raised = TRUE]
    ELSE IF line_up = "True" THEN refresh_window(s, st1, run)
    ELSE st1

\* Core.try_execute
try_execute(s, st, run, arg) ==
    LET line == <<"/">> \o arg
        st1 == Call(Focused(s, st), run, "execute_command", line, FALSE)
    IN IF line \in RaisingLines THEN Call(st1, run, "log.error", line, FALSE) ELSE st1

\* Core.do_command
do_command(s, st, run, key, raw) ==
    IF key = <<>> THEN st ELSE Call(Focused(s, st), run, "on_input", key, raw)

\* Core.key_func with KeyDict.get: the function bound to the key k, None
\* when there is none
key_func_get(k) ==
    IF Len(k) > Len(EXC) /\ SubSeq(k, 1, Len(EXC)) = EXC
    THEN [func |-> "try_execute", arg |-> SubSeq(k, Len(EXC) + 1, Len(k))]
    ELSE IF k = CTRL_B THEN [func |-> "scroll_line_up", arg |-> <<>>]
    ELSE [func |-> None, arg |-> <<>>]

\* a slip: the test of the digit against the number of the focused tab is
\* inverted
MetaDigitInverted(s, st, run, char, prev) ==
    IF Len(char) = 3 /\ SubSeq(char, 1, 2) = <<"M", "-">> /\ IsDigit(char[3])
    THEN LET nb == int(char[3])
             st1 == Focused(s, st)
         IN IF st1.cur # nb THEN go_to_previous_tab(s, st1, run, prev)
            ELSE CallCommandWin(s, st1, run, nb)
    ELSE st

\* main_loop: the special case of M-x where x is a number
MetaDigit(s, st, run, char, prev) ==
    IF Len(char) = 3 /\ SubSeq(char, 1, 2) = <<"M", "-">> /\ IsDigit(char[3])
    THEN LET nb == int(char[3])
             st1 == Focused(s, st)
         IN IF st1.cur = nb THEN go_to_previous_tab(s, st1, run, prev)
            ELSE CallCommandWin(s, st1, run, nb)
    ELSE st

\* main_loop: the body of `for char_list in separate_chars_from_bindings(...)`
\* for the run of number `run`; p holds self.paused, self.previous_tab_nb
\* and what on_line_up does
HandleRun(s, st, run, keys, p) ==
    IF p.paused
    THEN Call(Call(Call(Focused(s, st), run, "input.do_command", keys[1], FALSE),
                   run, "input.prompt", <<>>, FALSE),
              run, "event.set", <<>>, FALSE)
    ELSE IF Len(keys) = 1
    THEN LET char == keys[1]
             st1 == MetaDigit(s, st, run, char, p.prev)
             func == key_func_get(char)
         IN IF func.func = "scroll_line_up" THEN scroll_line_up(s, st1, run, p.line_up)
            ELSE IF func.func = "try_execute" THEN try_execute(s, st1, run, func.arg)
            ELSE do_command(s, st1, run, replace_line_breaks(char), FALSE)
    ELSE do_command(s, st, run, Flatten(keys), TRUE)

\* main_loop: the `for` loop from the run of number `run` on; an exception
\* that propagates ends it
RECURSIVE HandleRuns(_, _, _, _, _)
HandleRuns(s, st, run, runs, p) ==
    IF run > Len(runs) \/ st.raised THEN [st EXCEPT !.handled = run - 1]
    ELSE HandleRuns(s, HandleRun(s, st, run, runs[run], p), run + 1, runs, p)

\* main_loop: one pass of the `while` loop, on the keys read
main_loop(s, cur, keys, p) ==
    LET big_char_list == [k \in 1 .. Len(keys) |-> replace_key_with_bound(keys[k])]
        runs == separate_chars_from_bindings(big_char_list)
        st == HandleRuns(s, [cur |-> cur, calls |-> <<>>, raised |-> FALSE, handled |-> 0],
                         1, runs, p)
    IN [runs |-> runs, st |-> IF st.raised THEN st ELSE doupdate(st, 0)]

\* the batches of keys that read_keyboard returns
Batches == SeqsUpTo({<<"a">>, CTRL_I, CTRL_B, CTRL_K, CTRL_L, META_1}, MaxKeys) \ {<<>>}

\* main_loop is entered with three tabs open and one of them focused;
\* paused is assigned by code that is not Core's
InitLoop ==
    /\ tabs = <<RosterInfoTab, 2, 3>>
    /\ current_tab_nb \in 0 .. 2
    /\ create_gaps = FALSE
    /\ tabOp = NoTabOp
    /\ rotStart = NoTab
    /\ rotSeq = <<>>
    /\ messages = <<>>
    /\ windows = <<>>
    /\ attached = [id \in Windows |-> "never"]
    /\ corrections = <<>>
    /\ appended = 0
    /\ appendedAs = <<>>
    /\ bufOp = NoBufOp
    /\ paused \in BOOLEAN
    /\ previous_tab_nb = 0
    /\ looping = TRUE
    /\ loopOp = NoLoopOp
    /\ char_list = <<>>
    /\ res = <<>>
    /\ timed_events = {}
    /\ timerOp = NoTimerOp
    /\ deadline = [e \in Events |-> "new"]
    /\ InitGuiVars

\* one pass of the `while self.running` loop of main_loop: a batch of keys is
\* read and handled
MainLoop ==
    /\ looping
    /\ \E keys \in Batches :
       \E line_up \in IF \E k \in 1 .. Len(keys) : keys[k] = CTRL_B THEN LineUps ELSE {"None"} :
         \E r \in {main_loop(tabs, current_tab_nb, keys,
                              [paused |-> paused, prev |-> previous_tab_nb,
                               line_up |-> line_up])} :
             /\ current_tab_nb' = r.st.cur
             /\ looping' = ~r.st.raised
             /\ loopOp' = [name |-> "main_loop", keys |-> keys, runs |-> r.runs,
                           calls |-> r.st.calls, handled |-> r.st.handled,
                           raised |-> r.st.raised, cur0 |-> current_tab_nb]
             /\ UNCHANGED <<tabs, create_gaps, tabOp, rotStart, rotSeq, paused,
                            previous_tab_nb, char_list, res, timerVars, bufVars, guiVars>>

NextLoop == MainLoop

SpecLoop == InitLoop /\ [][NextLoop]_vars

----------------------------------------------------------------------------
(* Properties of the main loop *)

\* the last pass of main_loop
Looped == loopOp.name = "main_loop"

\* the calls of `call` made in the last pass
CallsOf(call) == SelectSeq(loopOp.calls, LAMBDA c : c.call = call)

\* the calls made in the last pass for the run of number run
CallsFor(run) == SelectSeq(loopOp.calls, LAMBDA c : c.run = run)

\* C23, as claimed: while paused, every key of the batch is given to the
\* input of the focused tab, in order; the calls made for a run are on the
\* input and on the Event only, which is set.
PausedInsertsAll ==
    (Looped /\ paused) =>
        /\ [k \in 1 .. Len(CallsOf("input.do_command")) |->
               CallsOf("input.do_command")[k].arg] = Flatten(loopOp.runs)
        /\ \A k \in 1 .. Len(loopOp.calls) :
               loopOp.calls[k].run # 0 =>
                   loopOp.calls[k].call \in {"input.do_command", "input.prompt", "event.set"}
        /\ CallsOf("event.set") # <<>>

\* C24, as claimed: in a pass of main_loop that no exception ends, doupdate
\* is called once, and after the calls made for the runs.
RefreshOnce ==
    (Looped /\ ~loopOp.raised) =>
        /\ Len(CallsOf("doupdate")) = 1
        /\ Last(loopOp.calls).call = "doupdate"

\* the key is M-d, d a digit
IsMetaDigit(key) == Len(key) = 3 /\ key[1] = "M" /\ key[2] = "-" /\ IsDigit(key[3])

\* C25: when main_loop is not paused, the first call made for a run that is
\* the key M-d alone (and that main_loop comes to handle) is
\* go_to_previous_tab, followed by command_win(previous_tab_nb), if d is the
\* number of the tab focused at that time, and command_win(d) otherwise.
MetaDigitJump ==
    (Looped /\ ~paused) =>
        \A run \in 1 .. loopOp.handled :
            (Len(loopOp.runs[run]) = 1 /\ IsMetaDigit(loopOp.runs[run][1])) =>
                LET d == loopOp.runs[run][1][3]
                    calls == CallsFor(run)
                IN /\ Len(calls) >= 2
                   /\ IF DigitChars[calls[1].cur + 1] = d
                      THEN /\ calls[1].call = "go_to_previous_tab"
                           /\ calls[2].call = "command_win"
                           /\ calls[2].arg = <<DigitChars[previous_tab_nb + 1]>>
                      ELSE /\ calls[1].call = "command_win"
                           /\ calls[1].arg = <<d>>

\* C25, its case: M-1 was pressed twice with the roster tab focused: the
\* first jumped to the tab 1, the second went to the previous tab.
MetaDigitJumpWitness ==
    /\ Looped /\ ~paused
    /\ loopOp.keys = <<META_1, META_1>>
    /\ loopOp.cur0 = 0
    /\ CallsFor(1)[1].call = "command_win"
    /\ CallsFor(2)[1].call = "go_to_previous_tab"
    /\ current_tab_nb = previous_tab_nb

\* C26, as claimed: whatever a command or a function bound to a key does,
\* main_loop handles every run of the batch and goes on looping.
LoopSurvives ==
    Looped =>
        /\ loopOp.handled = Len(loopOp.runs)
        /\ \A run \in 1 .. Len(loopOp.runs) : CallsFor(run) # <<>>
        /\ looping

\* the calls made for the run of number run that hand it to a tab or to a
\* bound function
Dispatches(run) ==
    SelectSeq(CallsFor(run),
              LAMBDA c : c.call \in {"on_input", "on_line_up", "execute_command"})

\* C32, as claimed: in a pass of main_loop that is not paused (and that no
\* exception ends), a run that is a key M-d alone is not given to on_input;
\* every other run is dispatched once: a run of characters to on_input, as
\* one block; a special key alone to the function bound to it if there is
\* one, and to on_input, as a raw key, if there is none.
ExactlyOneDispatch ==
    (Looped /\ ~paused /\ ~loopOp.raised) =>
        \A run \in 1 .. Len(loopOp.runs) :
            LET keys == loopOp.runs[run]
                d == Dispatches(run)
            IN IF Len(keys) = 1 /\ IsMetaDigit(keys[1])
               THEN \A k \in 1 .. Len(d) : d[k].call # "on_input"
               ELSE /\ Len(d) = 1
                    /\ IF PlainRun(keys)
                       THEN d[1].call = "on_input" /\ d[1].arg = Flatten(keys)
                       ELSE IF key_func_get(keys[1]).func # None
                       THEN d[1].call # "on_input"
                       ELSE d[1].call = "on_input" /\ d[1].arg = keys[1] /\ ~d[1].raw

----------------------------------------------------------------------------
(* core.py: the timed events *)

\* the orders in which `for event in self.timed_events` may go through the
\* set S
Orders(S) == {o \in [1 .. Cardinality(S) -> S] : \A i, j \in DOMAIN o : i # j => o[i] # o[j]}

\* a slip: an event whose callback returns a falsy value is kept
FireFromKeeping(order, i, timed_out, falsy, fired) ==
    [fired |-> SelectSeq(order, LAMBDA e : e \in timed_out), removed |-> {}]

\* the loop of check_timed_events from the i-th event of the iteration on:
\* timed_out are the events whose has_timed_out(now) is true, falsy those
\* whose callback returns a falsy value
RECURSIVE FireFrom(_, _, _, _, _)
FireFrom(order, i, timed_out, falsy, fired) ==
    IF i > Len(order) THEN [fired |-> fired, removed |-> {}]
    ELSE IF order[i] \notin timed_out THEN FireFrom(order, i + 1, timed_out, falsy, fired)
    ELSE IF order[i] \in falsy THEN [fired |-> Append(fired, order[i]), removed |-> {order[i]}]
    ELSE FireFrom(order, i + 1, timed_out, falsy, Append(fired, order[i]))

\* a slip: the pass stops at the first event whose callback returns a falsy
\* value but leaves it among the timed events
check_timed_events_keeping(events, order, timed_out, falsy) ==
    [timed_events |-> events, fired |-> FireFrom(order, 1, timed_out, falsy, <<>>).fired]

\* Core.check_timed_events
check_timed_events(events, order, timed_out, falsy) ==
    LET r == FireFrom(order, 1, timed_out, falsy, <<>>)
    IN [timed_events |-> events \ r.removed, fired |-> r.fired]

\* Core.__init__: no timed event
InitTimers ==
    /\ tabs = <<RosterInfoTab>>
    /\ current_tab_nb = 0
    /\ create_gaps = FALSE
    /\ tabOp = NoTabOp
    /\ rotStart = NoTab
    /\ rotSeq = <<>>
    /\ messages = <<>>
    /\ windows = <<>>
    /\ attached = [id \in Windows |-> "never"]
    /\ corrections = <<>>
    /\ appended = 0
    /\ appendedAs = <<>>
    /\ bufOp = NoBufOp
    /\ InitLoopVars
    /\ InitGuiVars

\* Core.add_timed_event(event)
AddTimedEvent ==
    \E event \in Events :
        /\ timed_events' = timed_events \cup {event}
        /\ timerOp' = [name |-> "add_timed_event", events0 |-> timed_events,
                       timed_out |-> {}, falsy |-> {}, fired |-> <<event>>]
        /\ UNCHANGED <<deadline, keyVars, tabVars, bufVars, guiVars>>

\* Core.remove_timed_event(event)
RemoveTimedEvent ==
    \E event \in Events :
        /\ timed_events' = IF event \in timed_events THEN timed_events \ {event}
                           ELSE timed_events
        /\ timerOp' = [name |-> "remove_timed_event", events0 |-> timed_events,
                       timed_out |-> {}, falsy |-> {}, fired |-> <<event>>]
        /\ UNCHANGED <<deadline, keyVars, tabVars, bufVars, guiVars>>

\* Core.read_keyboard, one turn of its loop: get_user_input returned None (its
\* timeout) and check_timed_events is called.  The history keeps the events
\* that had timed out, those of the fired ones whose callback returned a falsy
\* value, and the events fired, in order.
CheckTimedEvents ==
    \E order \in Orders(timed_events), timed_out \in SUBSET timed_events :
        \E falsy \in SUBSET timed_out :
            \E r \in {check_timed_events(timed_events, order, timed_out, falsy)} :
                /\ timed_events' = r.timed_events
                /\ timerOp' = [name |-> "check_timed_events", events0 |-> timed_events,
                               timed_out |-> timed_out,
                               falsy |-> {r.fired[k] : k \in 1 .. Len(r.fired)} \cap falsy,
                               fired |-> r.fired]
                /\ UNCHANGED <<deadline, keyVars, tabVars, bufVars, guiVars>>

NextTimers == AddTimedEvent \/ RemoveTimedEvent \/ CheckTimedEvents

SpecTimers == InitTimers /\ [][NextTimers]_vars

----------------------------------------------------------------------------
(* Properties of the timed events *)

\* the last call was check_timed_events
Checked == timerOp.name = "check_timed_events"

\* the events fired by the last call
Fired == {timerOp.fired[k] : k \in 1 .. Len(timerOp.fired)}

\* C27: after check_timed_events, an event that was fired and whose callback
\* returned a falsy value is not pending any more; one that was fired and
\* whose callback returned anything else is still pending; one whose deadline
\* had not passed was not fired and is still pending; no event was fired
\* that was not pending, and none twice.
TimedEventContinuation ==
    Checked =>
        /\ \A e \in Fired : e \in timerOp.falsy <=> e \notin timed_events
        /\ \A e \in timerOp.events0 \ timerOp.timed_out : e \notin Fired /\ e \in timed_events
        /\ Fired \subseteq timerOp.events0
        /\ timed_events \subseteq timerOp.events0
        /\ Cardinality(Fired) = Len(timerOp.fired)

\* C27, its case: of three pending events one had not timed out; the two
\* others were fired, the first stays pending, the second was removed.
TimedEventContinuationWitness ==
    /\ Checked
    /\ Cardinality(timerOp.events0) = 3
    /\ Len(timerOp.fired) = 2
    /\ timerOp.fired[1] \in timed_events
    /\ timerOp.fired[2] \notin timed_events
    /\ Cardinality(timed_events) = 2

\* C28, as claimed: one check_timed_events fires every pending event whose
\* deadline has passed, each once.
DrainsExpired ==
    Checked =>
        /\ Fired = timerOp.timed_out
        /\ Cardinality(Fired) = Len(timerOp.fired)

----------------------------------------------------------------------------
(* core.py: the timed events as time passes.  An event object is given to
   add_timed_event once; its deadline is ahead at first and passes at some
   time, after which has_timed_out(now) is true of it for good. *)

\* the pending events whose has_timed_out(now) is true
Due == {e \in timed_events : deadline[e] = "passed"}

\* Core.add_timed_event(event), of an event that was not added before
ScheduleTimedEvent ==
    \E event \in Events :
        /\ deadline[event] = "new"
        /\ timed_events' = timed_events \cup {event}
        /\ deadline' = [deadline EXCEPT ![event] = "future"]
        /\ timerOp' = [name |-> "add_timed_event", events0 |-> timed_events,
                       timed_out |-> {}, falsy |-> {}, fired |-> <<event>>]
        /\ UNCHANGED <<keyVars, tabVars, bufVars, guiVars>>

\* datetime.now() goes beyond the deadline of an event
TimePasses ==
    \E event \in Events :
        /\ deadline[event] = "future"
        /\ deadline' = [deadline EXCEPT ![event] = "passed"]
        /\ UNCHANGED <<timed_events, timerOp, keyVars, tabVars, bufVars, guiVars>>

\* Core.read_keyboard, one turn of its loop: get_user_input returned None and
\* check_timed_events is called; the events that have timed out are the due
\* ones
CheckDueEvents ==
    \E order \in Orders(timed_events), falsy \in SUBSET Due :
        \E r \in {check_timed_events(timed_events, order, Due, falsy)} :
            /\ timed_events' = r.timed_events
            /\ timerOp' = [name |-> "check_timed_events", events0 |-> timed_events,
                           timed_out |-> Due,
                           falsy |-> {r.fired[k] : k \in 1 .. Len(r.fired)} \cap falsy,
                           fired |-> r.fired]
            /\ UNCHANGED <<deadline, keyVars, tabVars, bufVars, guiVars>>

NextLive == ScheduleTimedEvent \/ TimePasses \/ RemoveTimedEvent \/ CheckDueEvents

\* get_user_input keeps returning None: read_keyboard calls
\* check_timed_events again and again
SpecLive == InitTimers /\ [][NextLive]_vars /\ WF_vars(CheckDueEvents)

\* the last call was check_timed_events and it fired e, or it was
\* remove_timed_event(e)
FiredOrRemoved(e) ==
    \/ Checked /\ e \in Fired
    \/ timerOp.name = "remove_timed_event" /\ timerOp.fired = <<e>>

\* C39: when check_timed_events is called again and again and every event
\* is added once at most, a pending event whose deadline has passed is
\* eventually fired by a check_timed_events, unless remove_timed_event is
\* called on it before.
TimedEventLiveness ==
    \A e \in Events : (e \in Due) ~> FiredOrRemoved(e)

\* C39, its case: of three pending events whose deadlines had passed, a pass
\* fired one, removed it and stopped: the two others are still pending and
\* were not fired.
TimedEventLivenessWitness ==
    /\ Checked
    /\ Cardinality(timerOp.timed_out) = 3
    /\ Len(timerOp.fired) = 1
    /\ Cardinality(Due \ Fired) = 2

----------------------------------------------------------------------------
(* gui.py: the rooms of the legacy Gui.  The methods rotate_rooms_left and
   rotate_rooms_right of Gui are written with the prefix Gui_, the names
   being taken by those of Core. *)

\* the names of the rooms that are joined; a room may be named like the
\* 'Info' room
RoomNames == {"Info", "muc1", "muc2"}

\* Room(room, nick) makes a new object: its id is one that no room of the
\* list has
FreshId(rs) == Min((1 .. (Len(rs) + 1)) \ {rs[k].id : k \in 1 .. Len(rs)})

\* Gui.current_room
current_room(rs) == At(rs, 0)

\* Gui.get_room_by_name: <<>> for None
get_room_by_name(rs, name) ==
    LET named == {k \in 1 .. Len(rs) : rs[k].name = name} IN
    IF named = {} THEN <<>> ELSE <<rs[Min(named)]>>

\* Gui.join_room, the list
join_room(rs, room, nick) == Insert(rs, 0, Room(FreshId(rs), room, nick))

\* Gui.rotate_rooms_left, the list
Gui_rotate_rooms_left(rs) == Append(Pop(rs, 0), At(rs, 0))

\* Gui.rotate_rooms_right, the list
Gui_rotate_rooms_right(rs) == Insert(PopLast(rs), 0, Last(rs))

\* a slip: the test of the name of the current room is missing
command_part_any(rs) == Remove(rs, current_room(rs))

\* Gui.command_part, the list
command_part(rs) ==
    IF current_room(rs).name = "Info" THEN rs ELSE Remove(rs, current_room(rs))

\* a call made on the window or on the muc, with the name of the room given
GuiCall(call, room) == [call |-> call, room |-> room.name]

\* Gui.join_room(room, nick)
JoinRoom ==
    \E room \in RoomNames :
        /\ Len(rooms) < MaxRooms
        /\ rooms' = join_room(rooms, room, "nick")
        /\ guiOp' = [name |-> "join_room", rooms0 |-> rooms,
                     calls |-> <<GuiCall("window.text_win.new_win", current_room(rooms')),
                                 GuiCall("window.refresh", current_room(rooms'))>>]
        /\ UNCHANGED <<tabVars, bufVars, loopVars>>

\* Gui.rotate_rooms_left()
GuiRotateLeft ==
    /\ rooms' = Gui_rotate_rooms_left(rooms)
    /\ guiOp' = [name |-> "rotate_rooms_left", rooms0 |-> rooms,
                 calls |-> <<GuiCall("window.refresh", current_room(rooms'))>>]
    /\ UNCHANGED <<tabVars, bufVars, loopVars>>

\* Gui.rotate_rooms_right()
GuiRotateRight ==
    /\ rooms' = Gui_rotate_rooms_right(rooms)
    /\ guiOp' = [name |-> "rotate_rooms_right", rooms0 |-> rooms,
                 calls |-> <<GuiCall("window.refresh", current_room(rooms'))>>]
    /\ UNCHANGED <<tabVars, bufVars, loopVars>>

\* Gui.command_part(args)
CommandPart ==
    /\ rooms' = command_part(rooms)
    /\ guiOp' = [name |-> "command_part", rooms0 |-> rooms,
                 calls |-> IF rooms' = rooms THEN <<>>
                           ELSE <<GuiCall("muc.quit_room", current_room(rooms)),
                                  GuiCall("window.refresh", current_room(rooms'))>>]
    /\ UNCHANGED <<tabVars, bufVars, loopVars>>

NextGui == JoinRoom \/ GuiRotateLeft \/ GuiRotateRight \/ CommandPart

SpecGui == InitTabs /\ [][NextGui]_vars

\* the rooms of the list, as a set
RoomSet(rs) == {rs[k] : k \in 1 .. Len(rs)}

\* C40: after any sequence of join_room, rotate_rooms_left,
\* rotate_rooms_right and command_part the list of rooms is not empty and
\* holds a room named 'Info' (the one Gui started with), which
\* get_room_by_name finds; command_part changes nothing and calls nothing
\* while the current room is named 'Info'; a rotation keeps the rooms and
\* the length of the list; and rotate_rooms_left followed by
\* rotate_rooms_right gives the list back in its order.
InfoPermanent ==
    /\ Len(rooms) > 0
    /\ \E k \in 1 .. Len(rooms) : rooms[k] = Room(0, "Info", "")
    /\ get_room_by_name(rooms, "Info") # <<>>
    /\ current_room(rooms).name = "Info" => command_part(rooms) = rooms
    /\ (guiOp.name = "command_part" /\ current_room(guiOp.rooms0).name = "Info")
           => rooms = guiOp.rooms0 /\ guiOp.calls = <<>>
    /\ guiOp.name \in {"rotate_rooms_left", "rotate_rooms_right"}
           => /\ RoomSet(rooms) = RoomSet(guiOp.rooms0)
              /\ Len(rooms) = Len(guiOp.rooms0)
    /\ Gui_rotate_rooms_right(Gui_rotate_rooms_left(rooms)) = rooms

\* C40, its case: command_part was called with the room Gui started with
\* in front of two rooms that were joined, and left the list as it was.
InfoPermanentWitness ==
    /\ guiOp.name = "command_part"
    /\ guiOp.rooms0 = rooms
    /\ Len(rooms) = 3
    /\ current_room(rooms) = Room(0, "Info", "")
    /\ rooms[2].name = "muc2"
    /\ rooms[3].name = "muc1"

====
